---- MODULE Spec2Model ----
(***************************************************************************)
(* Model of the consistent-classification engine: the Classifier           *)
(* (classifier.go), its three background maintenance jobs, its graceful    *)
(* shutdown (Close) and the label clustering store (disjoint_set DSU).     *)
(*                                                                         *)
(* Strings are sequences of one-character strings, so that TrimSpace is    *)
(* computed and not assumed.  Go's 0-based slices are functions over       *)
(* 0..n-1.  Similarity scores are hundredths (0.80 is 80).                 *)
(***************************************************************************)
EXTENDS Integers, Sequences, FiniteSets, TLC

\* ------------------------------------------------------------------ bounds
NumThreads == 2
MaxCalls == 2
MaxCloses == 2
MaxFaults == 1
MaxMisses == 1

\* bounds of the runs with one caller that makes its calls one after another
SeqMaxCalls == 2
SeqMaxFaults == 3
SeqMaxMisses == 2

\* bounds of the runs with one caller and configured thresholds
CfgMaxCalls == 1
CfgMaxFaults == 1
CfgMaxMisses == 1

\* bound of the runs that drive the clustering store alone: its number of
\* indices
DsuMaxSize == 3

\* bound of the runs that save and load the store: its number of indices
FileMaxSize == 2

\* bound of the runs that follow the store's lock: its number of indices
LockMaxSize == 4

Threads == 1..NumThreads

\* ------------------------------------------------------- program constants
DefaultMinSimilarity == 80

\* ----------------------------------------------------------------- strings
EmptyStr == << >>

IsSpace(ch) == ch = " "

RECURSIVE TrimLeft(_)
TrimLeft(s) ==
    IF s = << >> THEN s
    ELSE IF IsSpace(Head(s)) THEN TrimLeft(Tail(s)) ELSE s

RECURSIVE TrimRight(_)
TrimRight(s) ==
    IF s = << >> THEN s
    ELSE IF IsSpace(s[Len(s)]) THEN TrimRight(SubSeq(s, 1, Len(s) - 1)) ELSE s

TrimSpace(s) == TrimRight(TrimLeft(s))

\* strings.ToLower over the alphabet of the model
LowerChar(ch) == IF ch = "A" THEN "a" ELSE IF ch = "B" THEN "b" ELSE ch

ToLower(s) == [i \in 1..Len(s) |-> LowerChar(s[i])]

\* DefaultLLMClient.Classify: the completion is trimmed, then lowercased
DefaultLLMClientClassify(content) == ToLower(TrimSpace(content))

\* ------------------------------------------------- inputs of the environment
Texts == { << >>, << " " >>, << " ", "x" >> }
\* what c.llm.Classify may return: the default client's normalised
\* completions, and the strings of any other LLMClient handed to the Config
LLMCompletions == { << " " >>, << " ", "A" >> }
LLMOutputs == { DefaultLLMClientClassify(c) : c \in LLMCompletions }
                 \cup { << " " >>, << "a" >>, << "B", " " >> }
MetaLabels == { << >>, << "a" >>, << "b" >> }
RootLabels == { << "a" >>, << "b" >> }
Scores == { 79, 80, 95 }
Durations == { 0, 1 }

\* metadata["label"].(string) / metadata["root"].(string): absent or not a
\* string is has = FALSE
NoMatch == [found |-> FALSE, score |-> 0, has |-> FALSE, str |-> EmptyStr]
Match(sc, h, s) == [found |-> TRUE, score |-> sc, has |-> h, str |-> s]

ContentSearchResults ==
    { NoMatch } \cup { Match(sc, FALSE, EmptyStr) : sc \in Scores }
                \cup { Match(sc, TRUE, l) : sc \in Scores, l \in MetaLabels }

LabelSearchResults ==
    { NoMatch } \cup { Match(sc, FALSE, EmptyStr) : sc \in Scores }
                \cup { Match(sc, TRUE, l) : sc \in Scores, l \in RootLabels }

\* --------------------------------------------------- disjoint set (the DSU)
EmptyFn == [x \in {} |-> 0]

NewDSU == [root |-> EmptyFn, rank |-> EmptyFn, labels |-> EmptyFn,
           labelIndex |-> EmptyFn]

SliceLen(f) == Cardinality(DOMAIN f)

SliceAppend(f, v) ==
    [i \in 0..SliceLen(f) |-> IF i < SliceLen(f) THEN f[i] ELSE v]

MapPut(m, k, v) == [x \in (DOMAIN m) \cup {k} |-> IF x = k THEN v ELSE m[x]]

\* add: append a self-parent of rank 0 and enter it in both lookup tables
add(d, label) ==
    LET n == SliceLen(d.root) IN
    [d |-> [root |-> SliceAppend(d.root, n),
            rank |-> SliceAppend(d.rank, 0),
            labels |-> MapPut(d.labels, label, n),
            labelIndex |-> MapPut(d.labelIndex, n, label)],
     idx |-> n]

\* find with path compression; returns the compressed parent slice too
RECURSIVE find(_, _)
find(root, x) ==
    IF root[x] = x THEN [root |-> root, idx |-> x]
    ELSE LET r == find(root, root[x]) IN
         [root |-> [r.root EXCEPT ![x] = r.idx], idx |-> r.idx]

FindOrCreateAlwaysAdds(d, label) == add(d, label)

FindOrCreateNoFind(d, label) ==
    IF label \notin DOMAIN d.labels THEN add(d, label)
    ELSE [d |-> d, idx |-> d.labels[label]]

FindOrCreate(d, label) ==
    IF label \notin DOMAIN d.labels THEN add(d, label)
    ELSE LET r == find(d.root, d.labels[label]) IN
         [d |-> [d EXCEPT !.root = r.root], idx |-> r.idx]

UnionNoSameSetCheck(d, x, y) ==
    LET fx == find(d.root, x)
        fy == find(fx.root, y)
        rootX == fx.idx
        rootY == fy.idx
        d1 == [d EXCEPT !.root = fy.root]
    IN  IF d1.rank[rootX] > d1.rank[rootY]
        THEN [d1 EXCEPT !.root[rootY] = rootX]
        ELSE IF d1.rank[rootX] < d1.rank[rootY]
             THEN [d1 EXCEPT !.root[rootX] = rootY]
        ELSE [d1 EXCEPT !.root[rootY] = rootX, !.rank[rootX] = @ + 1]

UnionIgnoresRank(d, x, y) ==
    LET fx == find(d.root, x)
        fy == find(fx.root, y)
        rootX == fx.idx
        rootY == fy.idx
        d1 == [d EXCEPT !.root = fy.root]
    IN  IF rootX = rootY THEN d1
        ELSE [d1 EXCEPT !.root[rootY] = rootX]

UnionSecondWinsTie(d, x, y) ==
    LET fx == find(d.root, x)
        fy == find(fx.root, y)
        rootX == fx.idx
        rootY == fy.idx
        d1 == [d EXCEPT !.root = fy.root]
    IN  IF rootX = rootY THEN d1
        ELSE IF d1.rank[rootX] > d1.rank[rootY]
             THEN [d1 EXCEPT !.root[rootY] = rootX]
        ELSE IF d1.rank[rootX] < d1.rank[rootY]
             THEN [d1 EXCEPT !.root[rootX] = rootY]
        ELSE [d1 EXCEPT !.root[rootX] = rootY, !.rank[rootY] = @ + 1]

Union(d, x, y) ==
    LET fx == find(d.root, x)
        fy == find(fx.root, y)
        rootX == fx.idx
        rootY == fy.idx
        d1 == [d EXCEPT !.root = fy.root]
    IN  IF rootX = rootY THEN d1
        ELSE IF d1.rank[rootX] > d1.rank[rootY]
             THEN [d1 EXCEPT !.root[rootY] = rootX]
        ELSE IF d1.rank[rootX] < d1.rank[rootY]
             THEN [d1 EXCEPT !.root[rootX] = rootY]
        ELSE [d1 EXCEPT !.root[rootY] = rootX, !.rank[rootX] = @ + 1]

FindLabel(d, idx) ==
    IF idx \in DOMAIN d.labelIndex THEN d.labelIndex[idx] ELSE EmptyStr

MarshalJSONFlatRoot(d) ==
    [root |-> [i \in DOMAIN d.root |-> i], rank |-> d.rank,
     labels |-> d.labels]

\* JSON image of the store: root, rank and labels only
MarshalJSON(d) == [root |-> d.root, rank |-> d.rank, labels |-> d.labels]

\* UnmarshalJSON into a store made by NewDSU: the three decoded fields are
\* assigned, labelIndex keeps the empty map NewDSU gave it
UnmarshalJSON(d, data) ==
    [d EXCEPT !.root = data.root, !.rank = data.rank, !.labels = data.labels]

\* Load with an existing file
LoadFile(data) == UnmarshalJSON(NewDSU, data)

\* a state file written by an earlier run: a and b added, then united
PersistedFiles ==
    LET d1 == add(NewDSU, << "a" >>).d
        d2 == add(d1, << "b" >>).d
    IN  { MarshalJSON(Union(d2, 0, 1)) }

\* Connected: two finds, left to right, and the comparison of their results
Connected(d, x, y) ==
    LET fx == find(d.root, x)
        fy == find(fx.root, y)
    IN  [d |-> [d EXCEPT !.root = fy.root], res |-> fx.idx = fy.idx]

Size(d) == Cardinality(DOMAIN d.labels)

\* CountSets: find on every index in slice order, the roots collected in a set
RECURSIVE CountSetsFrom(_, _, _)
CountSetsFrom(root, i, rootSet) ==
    IF i >= SliceLen(root) THEN [root |-> root, n |-> Cardinality(rootSet)]
    ELSE LET r == find(root, i) IN
         CountSetsFrom(r.root, i + 1, rootSet \cup { r.idx })

CountSets(d) ==
    LET r == CountSetsFrom(d.root, 0, {}) IN
    [d |-> [d EXCEPT !.root = r.root], n |-> r.n]

\* what find, Union and CountSets index without a range check: a store that
\* fails this makes them panic (index out of range, or a recursion without
\* end), which ends the process
RECURSIVE Reaches(_, _, _)
Reaches(root, x, fuel) ==
    IF root[x] = x THEN TRUE
    ELSE IF fuel = 0 THEN FALSE
    ELSE Reaches(root, root[x], fuel - 1)

Usable(d) ==
    /\ \A i \in DOMAIN d.root : d.root[i] \in DOMAIN d.root
    /\ DOMAIN d.root \subseteq DOMAIN d.rank
    /\ \A l \in DOMAIN d.labels : d.labels[l] \in DOMAIN d.root
    /\ \A i \in DOMAIN d.root : Reaches(d.root, i, SliceLen(d.root))

\* ------------------------------------------------ persistence (one file)
\* the resource at FileDSUPersistence.filepath: whether it exists, who wrote
\* it last, whether json.Unmarshal can decode it into the three fields, and
\* the fields (one that is missing or null decodes to nil)
NoFile == [exists |-> FALSE, by |-> "nobody", json |-> FALSE,
           data |-> MarshalJSON(NewDSU)]

WrittenFile(d) == [exists |-> TRUE, by |-> "save", json |-> TRUE,
                   data |-> MarshalJSON(d)]

EarlierFile(img) == [exists |-> TRUE, by |-> "earlier", json |-> TRUE,
                     data |-> img]

\* Load: a missing file is a new empty store; a file that cannot be read
\* or decoded is an error and no store; anything json.Unmarshal decodes is
\* handed back as it is
LoadMissingIsError(f, readOk) ==
    IF ~f.exists THEN [err |-> "stat", store |-> FALSE, d |-> NewDSU]
    ELSE IF ~readOk THEN [err |-> "read", store |-> FALSE, d |-> NewDSU]
    ELSE IF ~f.json THEN [err |-> "unmarshal", store |-> FALSE, d |-> NewDSU]
    ELSE [err |-> "nil", store |-> TRUE, d |-> UnmarshalJSON(NewDSU, f.data)]

Load(f, readOk) ==
    IF ~f.exists THEN [err |-> "nil", store |-> TRUE, d |-> NewDSU]
    ELSE IF ~readOk THEN [err |-> "read", store |-> FALSE, d |-> NewDSU]
    ELSE IF ~f.json THEN [err |-> "unmarshal", store |-> FALSE, d |-> NewDSU]
    ELSE [err |-> "nil", store |-> TRUE, d |-> UnmarshalJSON(NewDSU, f.data)]

\* Save: the image of the store replaces the file, or WriteFile fails
Save(f, d, writeOk) ==
    IF writeOk THEN [err |-> "nil", file |-> WrittenFile(d)]
    ELSE [err |-> "write", file |-> f]

\* ways a file gets malformed outside the program
Damages == { "syntax", "noRoot", "noRank", "noLabels", "shortRank",
             "badParent", "badLabel" }

Damage(f, kind) ==
    LET n == SliceLen(f.data.root)
        g == [f EXCEPT !.by = "other"]
    IN  CASE kind = "syntax" -> [g EXCEPT !.json = FALSE]
          [] kind = "noRoot" -> [g EXCEPT !.data.root = EmptyFn]
          [] kind = "noRank" -> [g EXCEPT !.data.rank = EmptyFn]
          [] kind = "noLabels" -> [g EXCEPT !.data.labels = EmptyFn]
          [] kind = "shortRank" ->
                [g EXCEPT !.data.rank = [i \in 0..(n - 2) |-> f.data.rank[i]]]
          [] kind = "badParent" -> [g EXCEPT !.data.root[0] = n]
          [] kind = "badLabel" ->
                [g EXCEPT !.data.labels =
                    [l \in DOMAIN f.data.labels |-> n]]

\* a file Load must not accept: not decodable, or decodable into fields that
\* are no store (a field missing, parent and rank of different lengths, a
\* parent entry or a label index outside the slice)
Malformed(f) ==
    \/ ~f.json
    \/ DOMAIN f.data.root # DOMAIN f.data.rank
    \/ \E i \in DOMAIN f.data.root : f.data.root[i] \notin DOMAIN f.data.root
    \/ \E l \in DOMAIN f.data.labels :
          f.data.labels[l] \notin DOMAIN f.data.root
    \/ (f.data.labels = EmptyFn /\ f.data.root # EmptyFn)

\* ----------------------------------------------- the store's direct client
NoOp == [op |-> "none", err |-> "nil", store |-> FALSE, res |-> 0,
         label |-> EmptyStr]

Did(name, res) == [NoOp EXCEPT !.op = name, !.res = res]

Unlocked == [w |-> 0, r |-> {}]

\* the tally of add calls and of merging Union calls, kept for a store that
\* was created empty
Tallied(t, a, m) ==
    IF t.fresh THEN [t EXCEPT !.adds = @ + a, !.merges = @ + m] ELSE t

\* a thread outside the store; inside, label, x and y are the arguments of
\* the call, and unseen tells that the store did not hold the label when
\* FindOrCreate was called
\* (x the index CountSets is at) and acc the roots it has found so far
NoStoreOp == [pc |-> "idle", label |-> EmptyStr, unseen |-> FALSE,
              x |-> -1, y |-> -1, acc |-> {}]

\* ------------------------------------------------------------------- state
VARIABLES
    closing,              \* Classifier.closing
    bgTasks,              \* counter of Classifier.backgroundTasks (WaitGroup)
    once,                 \* Classifier.shutdownOnce: "idle", "running", "done"
    dsu,                  \* Classifier.dsu
    totalClassifications, \* Classifier.totalClassifications
    cacheHits,            \* Classifier.cacheHits
    contentStore,         \* content vector space: sequence of upserted metadata
    labelStore,           \* label vector space: label -> metadata root
    saveCount,            \* number of dsuPersist.Save calls
    persisted,            \* the JSON images handed to persistence, in order
    saveOutcome,          \* what the Save made by Close returned
    drainSet,             \* threads whose jobs were counted when closing was set
    started,              \* Classify calls begun so far
    closes,               \* Close calls begun so far
    faults,               \* maintenance faults injected so far
    misses,               \* content searches answered without a hit so far
    cfg,                  \* Classifier.minSimilarityContent, minSimilarityLabel
    limit,                \* the bounds of the run on the four counters above
                          \* and on the number of indices of the store
    simLog,               \* pairs <<A, B>>: the label search for B returned a
                          \* match at or above the threshold that carries the
                          \* root stored with A
    th,                   \* per thread: the locals of the call it is running
    ret,                  \* what the call that returned last handed its caller
    served,               \* results handed back to callers, and how many of
                          \* them carried CacheHit = true
    tally,                \* add calls and merging Union calls made on the store
    file,                 \* the resource behind FileDSUPersistence.filepath
    saved,                \* the store as it was when Save last wrote the file
    last,                 \* the operation made last on the store or its file,
                          \* and what it returned
    lock,                 \* dsu.lock: the writer and the readers holding it
    op,                   \* per thread: the store operation it is inside
    io,                   \* per goroutine: the routine it runs, the step it
                          \* is at, and whether it is inside a collaborator
                          \* call that has not returned
    mutexes               \* dsu.lock, metricsLock and closeLock as the
                          \* routines take and release them

vars == << closing, bgTasks, once, dsu, totalClassifications, cacheHits,
           contentStore, labelStore, saveCount, persisted, saveOutcome,
           drainSet, started, closes, faults, misses, cfg, limit, simLog,
           th, ret, served, tally, file, saved, last, lock, op, io,
           mutexes >>

\* the state of a direct client of the store and of its persistence
clientVars == << tally, file, saved, last >>
lockVars == << lock, op >>
ioVars == << io, mutexes >>
directVars == << clientVars, lockVars, ioVars >>

\* the three sync.RWMutex of the program, and a goroutine that runs nothing
Mutexes == { "dsu.lock", "metricsLock", "closeLock" }

IdleIo == [routine |-> "none", pos |-> 0, inCall |-> FALSE]

NoResult == [kind |-> "none", err |-> "nil", text |-> EmptyStr,
             label |-> EmptyStr,
             cacheHit |-> FALSE, confidence |-> 0, backgroundLatency |-> 0]

ErrResultAsOk(e) == [NoResult EXCEPT !.kind = "ok", !.err = e]

ErrResult(e) == [NoResult EXCEPT !.kind = "err", !.err = e]

OkResult(l, hit, conf, bg) ==
    [kind |-> "ok", err |-> "nil", text |-> EmptyStr, label |-> l,
     cacheHit |-> hit,
     confidence |-> conf, backgroundLatency |-> bg]

CloseResult(e) == [NoResult EXCEPT !.kind = "closed", !.err = e]

IdleThread ==
    [op |-> "none", pc |-> "idle", text |-> EmptyStr, ctxDone |-> FALSE,
     matched |-> FALSE, score |-> 0, labelOk |-> FALSE,
     label |-> EmptyStr, rootIdx |-> -1,
     j1 |-> "none", j2 |-> "none", j3 |-> "none",
     x |-> -1, y |-> -1, rootLabel1 |-> EmptyStr, lm |-> NoMatch,
     rootLabel3 |-> EmptyStr,
     errChan |-> << >>, bgErr |-> "nil",
     embedCalls |-> 0, searchCalls |-> 0, llmCalls |-> 0,
     upsertsContent |-> 0, upsertsLabel |-> 0]

\* a step of thread p that stays inside its call, and one that returns res
\* to the caller (the call's locals are gone)
Continue(p, t) == th' = [th EXCEPT ![p] = t] /\ UNCHANGED ret

Return(p, res) == th' = [th EXCEPT ![p] = IdleThread] /\ ret' = res

\* the caller's tally of the results it was handed
Serve(s, res) ==
    IF res.kind = "ok"
    THEN [results |-> s.results + 1,
          hits |-> s.hits + (IF res.cacheHit THEN 1 ELSE 0)]
    ELSE s

\* recordCacheHit and recordClassification on the two counters
recordCacheHitOnlyHits(m) ==
    [m EXCEPT !.cacheHits = @ + 1]

recordCacheHit(m) ==
    [totalClassifications |-> m.totalClassifications + 1,
     cacheHits |-> m.cacheHits + 1]

recordClassification(m) ==
    [m EXCEPT !.totalClassifications = @ + 1]

Counters == [totalClassifications |-> totalClassifications,
             cacheHits |-> cacheHits]

\* the states of a Classify call in which its backgroundTasks.Add(1) is not
\* yet undone by the deferred Done
CountedPcs == { "bgStart", "bgRun", "bgLog" }

JobDone == { "ok", "failed", "cancelled" }

\* Config.applyDefaults: a threshold left at 0 becomes the default
ZeroConfig == [MinSimilarityContent |-> 0, MinSimilarityLabel |-> 0]

applyDefaults(c) ==
    [MinSimilarityContent |->
        IF c.MinSimilarityContent = 0 THEN DefaultMinSimilarity
        ELSE c.MinSimilarityContent,
     MinSimilarityLabel |->
        IF c.MinSimilarityLabel = 0 THEN DefaultMinSimilarity
        ELSE c.MinSimilarityLabel]

\* the state NewClassifier(c) leaves
NewClassifier(c) ==
    /\ cfg = [minSimilarityContent |-> applyDefaults(c).MinSimilarityContent,
              minSimilarityLabel |-> applyDefaults(c).MinSimilarityLabel]
    /\ closing = FALSE
    /\ bgTasks = 0
    /\ once = "idle"
    /\ dsu \in { NewDSU } \cup { LoadFile(f) : f \in PersistedFiles }
    /\ totalClassifications = 0
    /\ cacheHits = 0
    /\ contentStore = << >>
    /\ labelStore = EmptyFn
    /\ saveCount = 0
    /\ persisted = << >>
    /\ saveOutcome = "none"
    /\ drainSet = {}
    /\ started = 0
    /\ closes = 0
    /\ faults = 0
    /\ misses = 0
    /\ simLog = {}
    /\ th = [p \in Threads |-> IdleThread]
    /\ ret = NoResult
    /\ served = [results |-> 0, hits |-> 0]
    /\ tally = [adds |-> 0, merges |-> 0, fresh |-> dsu = NewDSU]
    /\ file = IF dsu = NewDSU THEN NoFile ELSE EarlierFile(MarshalJSON(dsu))
    /\ saved = NewDSU
    /\ last = NoOp
    /\ lock = Unlocked
    /\ op = [p \in Threads |-> NoStoreOp]
    /\ io = [p \in Threads |-> IdleIo]
    /\ mutexes = [m \in Mutexes |-> Unlocked]

\* the same with a Config that sets no threshold
Start == NewClassifier(ZeroConfig)

Init ==
    /\ Start
    /\ limit = [calls |-> MaxCalls, closes |-> MaxCloses, faults |-> MaxFaults,
                misses |-> MaxMisses, size |-> DsuMaxSize]

shutdownVars == << closing, bgTasks, once, saveCount, persisted, saveOutcome,
                   drainSet >>

storeVars == << contentStore, labelStore >>

metricVars == << totalClassifications, cacheHits >>

\* ---------------------------------------------------------------- Classify
\* top of Classify: the closing check under closeLock.RLock, then the trim
\* and the empty-text check
ClassifyGateTrimFirst(isClosing, text) ==
    IF TrimSpace(text) = EmptyStr THEN "InvalidInput"
    ELSE IF isClosing THEN "ShuttingDown"
    ELSE "go"

ClassifyGateNoTrim(isClosing, text) ==
    IF isClosing THEN "ShuttingDown"
    ELSE IF text = EmptyStr THEN "InvalidInput"
    ELSE "go"

ClassifyGate(isClosing, text) ==
    IF isClosing THEN "ShuttingDown"
    ELSE IF TrimSpace(text) = EmptyStr THEN "InvalidInput"
    ELSE "go"

ClassifyBegin(p, text) ==
    /\ th[p].pc = "idle"
    /\ started < limit.calls
    /\ started' = started + 1
    /\ LET g == ClassifyGate(closing, text) IN
         IF g = "go"
         THEN Continue(p, [IdleThread EXCEPT !.op = "classify", !.pc = "embed",
                                             !.text = TrimSpace(text)])
         ELSE Return(p, [ErrResult(g) EXCEPT !.text = text])
    /\ UNCHANGED << directVars, served, cfg, limit, simLog, dsu, misses, closes, faults, shutdownVars, storeVars, metricVars >>

\* Step 1: c.embedding.GenerateEmbedding
Embed(p) ==
    /\ th[p].pc = "embed"
    /\ \/ Continue(p, [th[p] EXCEPT !.pc = "search", !.embedCalls = @ + 1])
       \/ Return(p, ErrResult("EmbeddingFailure"))
    /\ UNCHANGED << directVars, served, cfg, limit, simLog, dsu, misses, started, closes, faults, shutdownVars, storeVars,
                    metricVars >>

\* len(matches) > 0 && matches[0].Score >= c.minSimilarityContent
IsCacheHitStrict(m, minSimilarity) == m.found /\ m.score > minSimilarity

IsCacheHitNeedsLabel(m, minSimilarity) ==
    m.found /\ m.score >= minSimilarity /\ m.has

IsCacheHit(m, minSimilarity) == m.found /\ m.score >= minSimilarity

\* Step 2: c.vectorContent.Search, then the hit test and the label metadata
Search(p) ==
    /\ th[p].pc = "search"
    /\ \/ Return(p, ErrResult("SearchFailure")) /\ UNCHANGED misses
       \/ \E m \in ContentSearchResults :
            LET t == [th[p] EXCEPT !.searchCalls = @ + 1,
                                   !.matched = m.found, !.score = m.score]
            IN  IF IsCacheHit(m, cfg.minSimilarityContent)
                THEN /\ UNCHANGED misses
                     /\ IF m.has
                        THEN Continue(p, [t EXCEPT !.pc = "hitRecord",
                                                   !.labelOk = m.has,
                                                   !.label = m.str])
                        ELSE Return(p, ErrResult("CorruptCacheEntry"))
                ELSE /\ misses < limit.misses
                     /\ misses' = misses + 1
                     /\ Continue(p, [t EXCEPT !.pc = "llm"])
    /\ UNCHANGED << directVars, served, cfg, limit, simLog, dsu, started, closes, faults, shutdownVars, storeVars,
                    metricVars >>

\* c.recordCacheHit()
HitRecord(p) ==
    /\ th[p].pc = "hitRecord"
    /\ totalClassifications' = recordCacheHit(Counters).totalClassifications
    /\ cacheHits' = recordCacheHit(Counters).cacheHits
    /\ Continue(p, [th[p] EXCEPT !.pc = "hitFind"])
    /\ UNCHANGED << directVars, served, cfg, limit, simLog, dsu, misses, started, closes, faults, shutdownVars, storeVars >>

\* c.dsu.FindOrCreate(label) of the hit path
HitFindOrCreate(p) ==
    /\ th[p].pc = "hitFind"
    /\ LET r == FindOrCreate(dsu, th[p].label) IN
         /\ dsu' = r.d
         /\ Continue(p, [th[p] EXCEPT !.pc = "hitLabel", !.rootIdx = r.idx])
    /\ UNCHANGED << directVars, served, cfg, limit, simLog, misses, started, closes, faults, shutdownVars, storeVars,
                    metricVars >>

\* c.dsu.FindLabel(...) and the hit result
HitFindLabel(p) ==
    /\ th[p].pc = "hitLabel"
    /\ Return(p, OkResult(FindLabel(dsu, th[p].rootIdx), TRUE, th[p].score, 0))
    /\ served' = Serve(served, ret')
    /\ UNCHANGED << directVars, cfg, limit, simLog, dsu, misses, started, closes, faults, shutdownVars, storeVars,
                    metricVars >>

\* label = strings.TrimSpace(label); if label == "" { ... }
LabelGateNoTrim(out) == IF out = EmptyStr THEN "EmptyLabel" ELSE "go"

LabelGate(out) == IF TrimSpace(out) = EmptyStr THEN "EmptyLabel" ELSE "go"

\* cache miss: c.llm.Classify, trim, empty-label check
LLM(p) ==
    /\ th[p].pc = "llm"
    /\ \/ Return(p, ErrResult("LLMFailure"))
       \/ \E out \in LLMOutputs :
            IF LabelGate(out) = "EmptyLabel"
            THEN Return(p, ErrResult("EmptyLabel"))
            ELSE Continue(p, [th[p] EXCEPT !.pc = "missRecord",
                                           !.llmCalls = @ + 1,
                                           !.label = TrimSpace(out)])
    /\ UNCHANGED << directVars, served, cfg, limit, simLog, dsu, misses, started, closes, faults, shutdownVars, storeVars,
                    metricVars >>

\* c.recordClassification()
MissRecord(p) ==
    /\ th[p].pc = "missRecord"
    /\ totalClassifications' = recordClassification(Counters).totalClassifications
    /\ Continue(p, [th[p] EXCEPT !.pc = "missAdd"])
    /\ UNCHANGED << directVars, served, cfg, limit, simLog, dsu, misses, started, closes, faults, cacheHits, shutdownVars,
                    storeVars >>

\* c.backgroundTasks.Add(1)
MissAdd(p) ==
    /\ th[p].pc = "missAdd"
    /\ bgTasks' = bgTasks + 1
    /\ Continue(p, [th[p] EXCEPT !.pc = "bgStart"])
    /\ UNCHANGED << directVars, served, cfg, limit, simLog, dsu, misses, started, closes, faults, closing, once, saveCount,
                    persisted, saveOutcome, drainSet, storeVars, metricVars >>

\* --------------------------------------------------- processBackgroundTasks
\* the select on ctx.Done() at the top, then the three goroutines are started
\* select { case <-ctx.Done(): ... default: }
CtxNeverCancelled(t) == FALSE

CtxCancelled(t) == t.ctxDone

SpawnJobsNoLabelCache(t) ==
    [t EXCEPT !.pc = "bgRun", !.j1 = "ready", !.j2 = "ready", !.j3 = "ok"]

SpawnJobs(t) ==
    [t EXCEPT !.pc = "bgRun", !.j1 = "ready", !.j2 = "ready", !.j3 = "ready"]

BgStart(p) ==
    /\ th[p].pc = "bgStart"
    /\ Continue(p, IF CtxCancelled(th[p])
                   THEN [th[p] EXCEPT !.pc = "bgLog", !.bgErr = "ctx"]
                   ELSE SpawnJobs(th[p]))
    /\ UNCHANGED << directVars, served, cfg, limit, simLog, dsu, misses, started, closes, faults, shutdownVars, storeVars,
                    metricVars >>

\* errChan := make(chan error, 3): a send goes through while the channel
\* holds fewer errors than its capacity; nothing receives before wg.Wait()
\* has returned, so on a channel without buffer a send would wait for ever
ErrChanCapacity == 3

CanSendUnbuffered(t) == FALSE

CanSend(t) == Len(t.errChan) < ErrChanCapacity

\* a job ends with an error: the error goes to errChan
JobFail(t, job, e) ==
    LET st == IF e = "ctx" THEN "cancelled" ELSE "failed" IN
    [t EXCEPT !.errChan = Append(@, e),
              !.j1 = IF job = 1 THEN st ELSE @,
              !.j2 = IF job = 2 THEN st ELSE @,
              !.j3 = IF job = 3 THEN st ELSE @]

\* the threshold updateLabelClustering compares the score with
minSimilarityLabelIsContent(c) == c.minSimilarityContent

minSimilarityLabel(c) == c.minSimilarityLabel

\* the root label updateLabelClustering picks from the label search
ClusterRootOwnLabel(label, m, minSimilarity) == label

ClusterRoot(label, m, minSimilarity) ==
    IF m.found /\ m.score >= minSimilarity /\ m.has THEN m.str ELSE label

\* a maintenance job may fail (collaborator error) while the fault budget
\* of the run allows it
Fault == faults < limit.faults /\ faults' = faults + 1

NoFault == UNCHANGED faults

\* Task 1, first part: ctx check, then updateLabelClustering up to and
\* including c.dsu.FindOrCreate(rootLabel)
J1FindRoot(p) ==
    /\ th[p].pc = "bgRun"
    /\ th[p].j1 = "ready"
    /\ \/ /\ CtxCancelled(th[p])
          /\ CanSend(th[p])
          /\ Continue(p, JobFail(th[p], 1, "ctx"))
          /\ UNCHANGED << dsu, simLog >> /\ NoFault
       \/ /\ ~CtxCancelled(th[p])
          /\ TrimSpace(th[p].label) = EmptyStr
          /\ Continue(p, [th[p] EXCEPT !.j1 = "ok"])
          /\ UNCHANGED << dsu, simLog >> /\ NoFault
       \/ \* GenerateEmbedding fails
          /\ ~CtxCancelled(th[p])
          /\ TrimSpace(th[p].label) # EmptyStr
          /\ CanSend(th[p])
          /\ Continue(p, JobFail([th[p] EXCEPT !.embedCalls = @ + 1],
                                 1, "clustering"))
          /\ UNCHANGED << dsu, simLog >> /\ Fault
       \/ \* vectorLabel.Search fails
          /\ ~CtxCancelled(th[p])
          /\ TrimSpace(th[p].label) # EmptyStr
          /\ CanSend(th[p])
          /\ Continue(p, JobFail([th[p] EXCEPT !.embedCalls = @ + 1,
                                               !.searchCalls = @ + 1],
                                 1, "clustering"))
          /\ UNCHANGED << dsu, simLog >> /\ Fault
       \/ /\ ~CtxCancelled(th[p])
          /\ TrimSpace(th[p].label) # EmptyStr
          /\ NoFault
          /\ \E m \in LabelSearchResults :
               LET rl == ClusterRoot(TrimSpace(th[p].label), m,
                                     minSimilarityLabel(cfg))
                   r == FindOrCreate(dsu, rl)
               IN  /\ dsu' = r.d
                   /\ simLog' = simLog \cup
                        IF m.found /\ m.score >= minSimilarityLabel(cfg) /\ m.has
                        THEN { << a, TrimSpace(th[p].label) >> :
                                 a \in { k \in DOMAIN labelStore :
                                            labelStore[k] = m.str } }
                        ELSE {}
                   /\ Continue(p, [th[p] EXCEPT !.embedCalls = @ + 1,
                                                !.searchCalls = @ + 1,
                                                !.j1 = "foundRoot",
                                                !.rootLabel1 = rl,
                                                !.lm = m,
                                                !.x = r.idx])
    /\ UNCHANGED << directVars, served, cfg, limit, misses, started, closes, shutdownVars, storeVars, metricVars >>

\* Task 1: c.dsu.FindOrCreate(label), the second argument of Union
J1FindLabel(p) ==
    /\ th[p].pc = "bgRun"
    /\ th[p].j1 = "foundRoot"
    /\ LET r == FindOrCreate(dsu, TrimSpace(th[p].label)) IN
         /\ dsu' = r.d
         /\ Continue(p, [th[p] EXCEPT !.j1 = "foundLabel", !.y = r.idx,
                                      !.lm = NoMatch])
    /\ UNCHANGED << directVars, served, cfg, limit, simLog, misses, started, closes, faults, shutdownVars, storeVars,
                    metricVars >>

\* Task 1: c.dsu.Union(x, y)
J1Union(p) ==
    /\ th[p].pc = "bgRun"
    /\ th[p].j1 = "foundLabel"
    /\ dsu' = Union(dsu, th[p].x, th[p].y)
    /\ Continue(p, [th[p] EXCEPT !.j1 = "ok", !.x = -1, !.y = -1,
                                 !.rootLabel1 = EmptyStr])
    /\ UNCHANGED << directVars, served, cfg, limit, simLog, misses, started, closes, faults, shutdownVars, storeVars,
                    metricVars >>

\* Task 2: ctx check, then cacheTextEmbedding (fresh id, Upsert)
J2CacheText(p) ==
    /\ th[p].pc = "bgRun"
    /\ th[p].j2 = "ready"
    /\ \/ /\ CtxCancelled(th[p])
          /\ CanSend(th[p])
          /\ Continue(p, JobFail(th[p], 2, "ctx"))
          /\ UNCHANGED contentStore /\ NoFault
       \/ /\ ~CtxCancelled(th[p])
          /\ CanSend(th[p])
          /\ Continue(p, JobFail([th[p] EXCEPT !.upsertsContent = @ + 1],
                                 2, "textCache"))
          /\ UNCHANGED contentStore /\ Fault
       \/ /\ ~CtxCancelled(th[p])
          /\ Continue(p, [th[p] EXCEPT !.upsertsContent = @ + 1, !.j2 = "ok"])
          /\ contentStore' = Append(contentStore,
                 [vector_text |-> th[p].text, label |-> th[p].label])
          /\ NoFault
    /\ UNCHANGED << directVars, served, cfg, limit, simLog, dsu, misses, started, closes, labelStore, shutdownVars,
                    metricVars >>

\* Task 3, first part: ctx check, then cacheLabelEmbedding up to the root
\* label (GenerateEmbedding, FindOrCreate, FindLabel, fallback to the label)
J3Resolve(p) ==
    /\ th[p].pc = "bgRun"
    /\ th[p].j3 = "ready"
    /\ \/ /\ CtxCancelled(th[p])
          /\ CanSend(th[p])
          /\ Continue(p, JobFail(th[p], 3, "ctx"))
          /\ UNCHANGED dsu /\ NoFault
       \/ /\ ~CtxCancelled(th[p])
          /\ TrimSpace(th[p].label) = EmptyStr
          /\ Continue(p, [th[p] EXCEPT !.j3 = "ok"])
          /\ UNCHANGED dsu /\ NoFault
       \/ /\ ~CtxCancelled(th[p])
          /\ TrimSpace(th[p].label) # EmptyStr
          /\ CanSend(th[p])
          /\ Continue(p, JobFail([th[p] EXCEPT !.embedCalls = @ + 1],
                                 3, "labelCache"))
          /\ UNCHANGED dsu /\ Fault
       \/ /\ ~CtxCancelled(th[p])
          /\ TrimSpace(th[p].label) # EmptyStr
          /\ NoFault
          /\ LET l == TrimSpace(th[p].label)
                 r == FindOrCreate(dsu, l)
                 fl == FindLabel(r.d, r.idx)
             IN  /\ dsu' = r.d
                 /\ Continue(p, [th[p] EXCEPT
                                   !.embedCalls = @ + 1, !.j3 = "resolved",
                                   !.rootLabel3 = IF fl = EmptyStr THEN l
                                                  ELSE fl])
    /\ UNCHANGED << directVars, served, cfg, limit, simLog, misses, started, closes, shutdownVars, storeVars, metricVars >>

\* the id cacheLabelEmbedding hands to Upsert: the label itself (cacheText-
\* Embedding hands a uuid, an id no entry of the store has)
LabelEntryIdFresh(label, store) ==
    IF label \in DOMAIN store THEN label \o << "#" >> ELSE label

LabelEntryId(label, store) == label

\* Task 3: c.vectorLabel.Upsert(ctx, label, ...), keyed by the label
J3Upsert(p) ==
    /\ th[p].pc = "bgRun"
    /\ th[p].j3 = "resolved"
    /\ \/ /\ CanSend(th[p])
          /\ Continue(p, JobFail([th[p] EXCEPT !.upsertsLabel = @ + 1,
                                               !.rootLabel3 = EmptyStr],
                                 3, "labelCache"))
          /\ UNCHANGED labelStore /\ Fault
       \/ /\ Continue(p, [th[p] EXCEPT !.upsertsLabel = @ + 1, !.j3 = "ok",
                                       !.rootLabel3 = EmptyStr])
          /\ labelStore' = MapPut(labelStore,
                                  LabelEntryId(TrimSpace(th[p].label),
                                               labelStore),
                                  th[p].rootLabel3)
          /\ NoFault
    /\ UNCHANGED << directVars, served, cfg, limit, simLog, dsu, misses, started, closes, contentStore, shutdownVars,
                    metricVars >>

\* wg.Wait() of processBackgroundTasks returns when all three jobs are done
JoinedFirstOnly(t) == t.j1 \in JobDone

Joined(t) == t.j1 \in JobDone /\ t.j2 \in JobDone /\ t.j3 \in JobDone

\* for err := range errChan: the first error sent, nil for an empty channel
FirstErrorDropped(ch) == "nil"

FirstError(ch) == IF ch = << >> THEN "nil" ELSE Head(ch)

\* wg.Wait(), close(errChan), first error of the channel
BgJoin(p) ==
    /\ th[p].pc = "bgRun"
    /\ Joined(th[p])
    /\ Continue(p, [th[p] EXCEPT !.pc = "bgLog", !.errChan = << >>,
                                 !.bgErr = FirstError(th[p].errChan)])
    /\ UNCHANGED << directVars, served, cfg, limit, simLog, dsu, misses, started, closes, faults, shutdownVars, storeVars,
                    metricVars >>

\* back in Classify: the error is logged, the result is built and the
\* deferred c.backgroundTasks.Done() runs
MissOutcomeEscalates(t, d) ==
    IF t.bgErr # "nil" THEN ErrResult("MaintenanceFailure")
    ELSE OkResult(t.label, FALSE, 0, d)

MissOutcomeClusterRoot(t, d) ==
    LET r == FindOrCreate(dsu, t.label) IN
    OkResult(FindLabel(r.d, r.idx), FALSE, 0, d)

MissOutcome(t, d) == OkResult(t.label, FALSE, 0, d)

MissReturn(p) ==
    /\ th[p].pc = "bgLog"
    /\ bgTasks' = bgTasks - 1
    /\ \E d \in Durations : Return(p, MissOutcome(th[p], d))
    /\ served' = Serve(served, ret')
    /\ UNCHANGED << directVars, cfg, limit, simLog, dsu, misses, started, closes, faults, closing, once, saveCount,
                    persisted, saveOutcome, drainSet, storeVars, metricVars >>

\* the caller's context is cancelled while the call runs; the model lets it
\* happen where a later read of ctx.Done() can still observe it
CancelCtx(p) ==
    /\ \/ th[p].pc = "bgStart"
       \/ th[p].pc = "bgRun" /\ "ready" \in { th[p].j1, th[p].j2, th[p].j3 }
    /\ ~th[p].ctxDone
    /\ Fault
    /\ Continue(p, [th[p] EXCEPT !.ctxDone = TRUE])
    /\ UNCHANGED << directVars, served, cfg, limit, simLog, dsu, misses, started, closes, shutdownVars, storeVars, metricVars >>

\* ------------------------------------------------------------------- Close
\* sync.Once.Do: the first caller runs f, a caller arriving while f runs
\* blocks until f returned, a later caller skips f
OnceDoAlwaysRun(state) == "run"

OnceDo(state) ==
    IF state = "idle" THEN "run"
    ELSE IF state = "running" THEN "block"
    ELSE "skip"

CloseBegin(p) ==
    /\ th[p].pc = "idle"
    /\ closes < limit.closes
    /\ closes' = closes + 1
    /\ LET o == OnceDo(once)
           t == [IdleThread EXCEPT !.op = "close"]
       IN  /\ once' = IF o = "run" THEN "running" ELSE once
           /\ IF o = "run" THEN Continue(p, [t EXCEPT !.pc = "closeFlag"])
              ELSE IF o = "block"
                   THEN Continue(p, [t EXCEPT !.pc = "closeBlocked"])
              ELSE Return(p, CloseResult("nil"))
    /\ UNCHANGED << directVars, served, cfg, limit, simLog, dsu, misses, started, faults, closing, bgTasks, saveCount,
                    persisted, saveOutcome, drainSet, storeVars, metricVars >>

\* a Close that found f running returns its own saveErr, which is nil
CloseUnblock(p) ==
    /\ th[p].pc = "closeBlocked"
    /\ once = "done"
    /\ Return(p, CloseResult("nil"))
    /\ UNCHANGED << directVars, served, cfg, limit, simLog, dsu, misses, started, closes, faults, shutdownVars, storeVars,
                    metricVars >>

\* c.closeLock.Lock(); c.closing = true; c.closeLock.Unlock()
CloseSetFlag(p) ==
    /\ th[p].pc = "closeFlag"
    /\ closing' = TRUE
    /\ drainSet' = { q \in Threads : th[q].pc \in CountedPcs }
    /\ Continue(p, [th[p] EXCEPT !.pc = "closeWait"])
    /\ UNCHANGED << directVars, served, cfg, limit, simLog, dsu, misses, started, closes, faults, bgTasks, once, saveCount,
                    persisted, saveOutcome, storeVars, metricVars >>

\* c.backgroundTasks.Wait() returns when the counter is zero
WaitReturnsAtOnce(counter) == TRUE

WaitReturns(counter) == counter = 0

CloseWait(p) ==
    /\ th[p].pc = "closeWait"
    /\ WaitReturns(bgTasks)
    /\ Continue(p, [th[p] EXCEPT !.pc = "closeSave"])
    /\ UNCHANGED << directVars, served, cfg, limit, simLog, dsu, misses, started, closes, faults, shutdownVars, storeVars,
                    metricVars >>

\* saveErr = c.dsuPersist.Save(c.dsu); f returns, Close returns saveErr
CloseSave(p) ==
    /\ th[p].pc = "closeSave"
    /\ saveCount' = saveCount + 1
    /\ persisted' = Append(persisted, MarshalJSON(dsu))
    /\ once' = "done"
    /\ \E e \in { "nil", "saveErr" } :
         /\ saveOutcome' = e
         /\ Return(p, CloseResult(e))
    /\ UNCHANGED << directVars, served, cfg, limit, simLog, dsu, misses, started, closes, faults, closing, bgTasks, drainSet,
                    storeVars, metricVars >>

\* ------------------------------------------------------------ specification
Next ==
    \E p \in Threads :
        \/ \E text \in Texts : ClassifyBegin(p, text)
        \/ Embed(p)
        \/ Search(p)
        \/ HitRecord(p)
        \/ HitFindOrCreate(p)
        \/ HitFindLabel(p)
        \/ LLM(p)
        \/ MissRecord(p)
        \/ MissAdd(p)
        \/ BgStart(p)
        \/ J1FindRoot(p)
        \/ J1FindLabel(p)
        \/ J1Union(p)
        \/ J2CacheText(p)
        \/ J3Resolve(p)
        \/ J3Upsert(p)
        \/ BgJoin(p)
        \/ MissReturn(p)
        \/ CancelCtx(p)
        \/ CloseBegin(p)
        \/ CloseUnblock(p)
        \/ CloseSetFlag(p)
        \/ CloseWait(p)
        \/ CloseSave(p)

Spec == Init /\ [][Next]_vars

\* one caller: the calls follow each other, the three jobs of a call still
\* run concurrently; more calls, misses and faults than Spec allows
Caller == 1

InitSeq ==
    /\ Start
    /\ limit = [calls |-> SeqMaxCalls, closes |-> 0, faults |-> SeqMaxFaults,
                misses |-> SeqMaxMisses, size |-> DsuMaxSize]

NextSeq ==
    \/ \E text \in Texts : ClassifyBegin(Caller, text)
    \/ Embed(Caller)
    \/ Search(Caller)
    \/ HitRecord(Caller)
    \/ HitFindOrCreate(Caller)
    \/ HitFindLabel(Caller)
    \/ LLM(Caller)
    \/ MissRecord(Caller)
    \/ MissAdd(Caller)
    \/ BgStart(Caller)
    \/ J1FindRoot(Caller)
    \/ J1FindLabel(Caller)
    \/ J1Union(Caller)
    \/ J2CacheText(Caller)
    \/ J3Resolve(Caller)
    \/ J3Upsert(Caller)
    \/ BgJoin(Caller)
    \/ MissReturn(Caller)
    \/ CancelCtx(Caller)

SpecSeq == InitSeq /\ [][NextSeq]_vars

\* ------------------------------------------- one caller, any thresholds
\* the same caller on a Classifier whose Config sets each threshold or leaves
\* it at 0
Configs == [MinSimilarityContent : { 0, 95 }, MinSimilarityLabel : { 0, 95 }]

InitCfg ==
    /\ \E c \in Configs : NewClassifier(c)
    /\ limit = [calls |-> CfgMaxCalls, closes |-> 0, faults |-> CfgMaxFaults,
                misses |-> CfgMaxMisses, size |-> DsuMaxSize]

SpecCfg == InitCfg /\ [][NextSeq]_vars

\* the same with the scheduling of the Go runtime: a goroutine that can take
\* its next step takes it (every collaborator call returns)
JobsFair ==
    /\ WF_vars(BgStart(Caller))
    /\ WF_vars(J1FindRoot(Caller))
    /\ WF_vars(J1FindLabel(Caller))
    /\ WF_vars(J1Union(Caller))
    /\ WF_vars(J2CacheText(Caller))
    /\ WF_vars(J3Resolve(Caller))
    /\ WF_vars(J3Upsert(Caller))
    /\ WF_vars(BgJoin(Caller))

SpecLive == InitCfg /\ [][NextSeq]_vars /\ JobsFair

\* ------------------------------------------- the clustering store on its own
\* a client of package disjoint_set calls the exported operations in any
\* order; the Classifier around the store stays as constructed
DsuLabels == { << "a" >>, << "b" >>, << "c" >> }

classifierVars == << closing, bgTasks, once, totalClassifications, cacheHits,
                     contentStore, labelStore, saveCount, persisted,
                     saveOutcome, drainSet, started, closes, faults, misses,
                     cfg, limit, simLog, th, ret, served, io, mutexes >>

InitDsu ==
    /\ Start
    /\ limit = [calls |-> 0, closes |-> 0, faults |-> 0, misses |-> 0,
                size |-> DsuMaxSize]

\* d.Add(label)
DsuAdd(label) ==
    /\ Usable(dsu)
    /\ SliceLen(dsu.root) < limit.size
    /\ dsu' = add(dsu, label).d
    /\ tally' = Tallied(tally, 1, 0)
    /\ last' = Did("add", add(dsu, label).idx)
    /\ UNCHANGED << classifierVars, lockVars, file, saved >>

\* d.FindOrCreate(label)
DsuFindOrCreate(label) ==
    /\ Usable(dsu)
    /\ label \in DOMAIN dsu.labels \/ SliceLen(dsu.root) < limit.size
    /\ dsu' = FindOrCreate(dsu, label).d
    /\ tally' = Tallied(tally, IF label \in DOMAIN dsu.labels THEN 0 ELSE 1, 0)
    /\ last' = Did("findOrCreate", FindOrCreate(dsu, label).idx)
    /\ UNCHANGED << classifierVars, lockVars, file, saved >>

\* d.Union(x, y)
DsuUnion(x, y) ==
    /\ Usable(dsu)
    /\ dsu' = Union(dsu, x, y)
    /\ tally' = Tallied(tally, 0, IF Connected(dsu, x, y).res THEN 0 ELSE 1)
    /\ last' = Did("union", IF Connected(dsu, x, y).res THEN 0 ELSE 1)
    /\ UNCHANGED << classifierVars, lockVars, file, saved >>

\* d.Connected(x, y)
DsuConnected(x, y) ==
    /\ Usable(dsu)
    /\ dsu' = Connected(dsu, x, y).d
    /\ last' = Did("connected", IF Connected(dsu, x, y).res THEN 1 ELSE 0)
    /\ UNCHANGED << classifierVars, lockVars, tally, file, saved >>

\* d.CountSets()
DsuCountSets ==
    /\ Usable(dsu)
    /\ dsu' = CountSets(dsu).d
    /\ last' = Did("countSets", CountSets(dsu).n)
    /\ UNCHANGED << classifierVars, lockVars, tally, file, saved >>

\* d.FindLabel(idx), for an index of the store or the one past its end
DsuFindLabel(idx) ==
    /\ last' = [Did("findLabel", idx) EXCEPT !.label = FindLabel(dsu, idx)]
    /\ UNCHANGED << classifierVars, lockVars, dsu, tally, file, saved >>

\* f.Save(dsu)
DsuSave(writeOk) ==
    /\ file' = Save(file, dsu, writeOk).file
    /\ saved' = IF writeOk THEN dsu ELSE saved
    /\ last' = [Did("save", 0) EXCEPT !.err = Save(file, dsu, writeOk).err]
    /\ UNCHANGED << classifierVars, lockVars, dsu, tally >>

\* f.Load(): the client goes on with the store it is handed, if any
DsuLoad(readOk) ==
    LET r == Load(file, readOk) IN
    /\ dsu' = IF r.store THEN r.d ELSE dsu
    /\ tally' = IF ~r.store THEN tally
                ELSE IF ~file.exists
                     THEN [adds |-> 0, merges |-> 0, fresh |-> TRUE]
                ELSE [adds |-> 0, merges |-> 0, fresh |-> FALSE]
    /\ last' = [Did("load", 0) EXCEPT !.err = r.err, !.store = r.store]
    /\ UNCHANGED << classifierVars, lockVars, file, saved >>

\* the file is damaged or removed by something else than the program
FileDamage(kind) ==
    /\ file.exists /\ ~Malformed(file)
    /\ SliceLen(file.data.root) >= 1
    /\ file' = Damage(file, kind)
    /\ last' = Did("damage", 0)
    /\ UNCHANGED << classifierVars, lockVars, dsu, tally, saved >>

FileRemove ==
    /\ file.exists
    /\ file' = NoFile
    /\ last' = Did("remove", 0)
    /\ UNCHANGED << classifierVars, lockVars, dsu, tally, saved >>

NextDsu ==
    \/ \E l \in DsuLabels : DsuAdd(l)
    \/ \E l \in DsuLabels : DsuFindOrCreate(l)
    \/ \E x, y \in DOMAIN dsu.root : DsuUnion(x, y)
    \/ \E x, y \in DOMAIN dsu.root : DsuConnected(x, y)
    \/ DsuCountSets
    \/ \E i \in 0..SliceLen(dsu.root) : DsuFindLabel(i)

SpecDsu == InitDsu /\ [][NextDsu]_vars

\* ----------------------------------------- the store under its lock, alone
\* threads that call the store directly; every call is split at its lock
\* operations and at its calls of find
LockLabels == << << "a" >>, << "b" >>, << "c" >>, << "d" >> >>

InitLock ==
    /\ Start
    /\ limit = [calls |-> 0, closes |-> 0, faults |-> 0, misses |-> 0,
                size |-> LockMaxSize]

\* the labels a caller passes to FindOrCreate: one the store holds, or the
\* next new one
KnownOrNext ==
    DOMAIN dsu.labels \cup
        { LockLabels[i] : i \in { j \in 1..Len(LockLabels) :
                                    j = Size(dsu) + 1 /\ j <= limit.size } }

Enter(p, pc, x, y) ==
    op' = [op EXCEPT ![p] = [NoStoreOp EXCEPT !.pc = pc, !.x = x, !.y = y]]

Leave(p) == op' = [op EXCEPT ![p] = NoStoreOp]

\* d.lock.Lock() and the deferred d.lock.Unlock()
LockW(p) == lock.w = 0 /\ lock.r = {} /\ lock' = [lock EXCEPT !.w = p]
UnlockW(p) == lock' = [lock EXCEPT !.w = 0]

\* d.lock.RLock() and the deferred d.lock.RUnlock()
LockR(p) == lock.w = 0 /\ lock' = [lock EXCEPT !.r = @ \cup { p }]
UnlockR(p) == lock' = [lock EXCEPT !.r = @ \ { p }]

\* FindOrCreate is called: the thread arrives at d.lock.Lock()
FocCall(p, label) ==
    /\ op[p].pc = "idle"
    /\ op' = [op EXCEPT ![p] = [NoStoreOp EXCEPT
                                  !.pc = "focWait", !.label = label,
                                  !.unseen = label \notin DOMAIN dsu.labels]]
    /\ UNCHANGED << classifierVars, clientVars, dsu, lock >>

\* FindOrCreate: Lock returns
FocLock(p) ==
    /\ op[p].pc = "focWait"
    /\ LockW(p)
    /\ op' = [op EXCEPT ![p].pc = "foc"]
    /\ UNCHANGED << classifierVars, clientVars, dsu >>

\* FindOrCreate: add or find, then Unlock
FocBody(p) ==
    /\ op[p].pc = "foc"
    /\ dsu' = FindOrCreate(dsu, op[p].label).d
    /\ tally' = Tallied(tally, IF op[p].label \in DOMAIN dsu.labels THEN 0 ELSE 1, 0)
    /\ last' = [Did("findOrCreate", FindOrCreate(dsu, op[p].label).idx)
                   EXCEPT !.label = op[p].label]
    /\ UnlockW(p)
    /\ Leave(p)
    /\ UNCHANGED << classifierVars, file, saved >>

\* Union: Lock
UnionLock(p, x, y) ==
    /\ op[p].pc = "idle"
    /\ LockW(p)
    /\ Enter(p, "union", x, y)
    /\ UNCHANGED << classifierVars, clientVars, dsu >>

\* Union: the two finds and the link, then Unlock
UnionBody(p) ==
    /\ op[p].pc = "union"
    /\ dsu' = Union(dsu, op[p].x, op[p].y)
    /\ tally' = Tallied(tally, 0,
                        IF Connected(dsu, op[p].x, op[p].y).res THEN 0 ELSE 1)
    /\ last' = Did("union", IF Connected(dsu, op[p].x, op[p].y).res
                            THEN 0 ELSE 1)
    /\ UnlockW(p)
    /\ Leave(p)
    /\ UNCHANGED << classifierVars, file, saved >>

\* Connected: RLock
ConnectedRLock(p, x, y) ==
    /\ op[p].pc = "idle"
    /\ LockR(p)
    /\ Enter(p, "findX", x, y)
    /\ UNCHANGED << classifierVars, clientVars, dsu >>

\* Connected: d.find(x), with its path compression
ConnectedFindX(p) ==
    /\ op[p].pc = "findX"
    /\ dsu' = [dsu EXCEPT !.root = find(dsu.root, op[p].x).root]
    /\ op' = [op EXCEPT ![p].pc = "findY",
                        ![p].acc = { find(dsu.root, op[p].x).idx }]
    /\ UNCHANGED << classifierVars, clientVars, lock >>

\* Connected: d.find(y), the comparison, then RUnlock
ConnectedFindY(p) ==
    /\ op[p].pc = "findY"
    /\ dsu' = [dsu EXCEPT !.root = find(dsu.root, op[p].y).root]
    /\ last' = Did("connected",
                   IF find(dsu.root, op[p].y).idx \in op[p].acc THEN 1 ELSE 0)
    /\ UnlockR(p)
    /\ Leave(p)
    /\ UNCHANGED << classifierVars, tally, file, saved >>

\* CountSets: RLock
CountSetsRLock(p) ==
    /\ op[p].pc = "idle"
    /\ LockR(p)
    /\ Enter(p, "count", 0, -1)
    /\ UNCHANGED << classifierVars, clientVars, dsu >>

\* CountSets: one turn of the loop, d.find(i) with its path compression
CountSetsFind(p) ==
    /\ op[p].pc = "count"
    /\ op[p].x < SliceLen(dsu.root)
    /\ dsu' = [dsu EXCEPT !.root = find(dsu.root, op[p].x).root]
    /\ op' = [op EXCEPT ![p].x = @ + 1,
                        ![p].acc = @ \cup { find(dsu.root, op[p].x).idx }]
    /\ UNCHANGED << classifierVars, clientVars, lock >>

\* CountSets: the loop is over, len(rootSet) is returned, RUnlock
CountSetsReturn(p) ==
    /\ op[p].pc = "count"
    /\ op[p].x >= SliceLen(dsu.root)
    /\ last' = Did("countSets", Cardinality(op[p].acc))
    /\ UnlockR(p)
    /\ Leave(p)
    /\ UNCHANGED << classifierVars, tally, file, saved, dsu >>

NextLock ==
    \E p \in Threads :
        \/ \E l \in KnownOrNext : FocCall(p, l)
        \/ FocLock(p)
        \/ FocBody(p)
        \/ \E x, y \in DOMAIN dsu.root : UnionLock(p, x, y)
        \/ UnionBody(p)
        \/ \E x, y \in DOMAIN dsu.root : ConnectedRLock(p, x, y)
        \/ ConnectedFindX(p)
        \/ ConnectedFindY(p)
        \/ CountSetsRLock(p)
        \/ CountSetsFind(p)
        \/ CountSetsReturn(p)

SpecLock == InitLock /\ [][NextLock]_vars

\* ------------------------------------------ the store and its file, alone
\* a client that builds a store and saves and loads it, while the file may
\* be damaged or removed behind its back
InitFile ==
    /\ Start
    /\ limit = [calls |-> 0, closes |-> 0, faults |-> 0, misses |-> 0,
                size |-> FileMaxSize]

NextFile ==
    \/ \E l \in DsuLabels : DsuFindOrCreate(l)
    \/ \E x, y \in DOMAIN dsu.root : DsuUnion(x, y)
    \/ \E ok \in BOOLEAN : DsuSave(ok)
    \/ \E ok \in BOOLEAN : DsuLoad(ok)
    \/ \E k \in Damages : FileDamage(k)
    \/ FileRemove

SpecFile == InitFile /\ [][NextFile]_vars

\* --------------------------------------- locks and collaborator calls
\* every routine of the program as the sequence of its lock operations and
\* of its calls of a collaborator (embedding, vector store, LLM), in program
\* order; a goroutine runs one routine at a time
Lock(m) == [k |-> "Lock", m |-> m]
Unlock(m) == [k |-> "Unlock", m |-> m]
RLock(m) == [k |-> "RLock", m |-> m]
RUnlock(m) == [k |-> "RUnlock", m |-> m]
Call(c) == [k |-> "call", m |-> c]

\* package disjoint_set: Lock or RLock on entry, the unlock deferred
FindOrCreateSteps == << Lock("dsu.lock"), Unlock("dsu.lock") >>
UnionSteps == << Lock("dsu.lock"), Unlock("dsu.lock") >>
FindLabelSteps == << RLock("dsu.lock"), RUnlock("dsu.lock") >>
SizeSteps == << RLock("dsu.lock"), RUnlock("dsu.lock") >>
CountSetsSteps == << RLock("dsu.lock"), RUnlock("dsu.lock") >>

recordCacheHitSteps == << Lock("metricsLock"), Unlock("metricsLock") >>
recordClassificationSteps == << Lock("metricsLock"), Unlock("metricsLock") >>

GetMetricsSteps ==
    << RLock("metricsLock") >> \o SizeSteps \o CountSetsSteps
        \o << RUnlock("metricsLock") >>

\* Classify up to its closing check
closingCheckSteps == << RLock("closeLock"), RUnlock("closeLock") >>

\* Classify on a cache hit, and on a miss up to processBackgroundTasks
ClassifyHitSteps ==
    closingCheckSteps
        \o << Call("embedding.GenerateEmbedding"),
              Call("vectorContent.Search") >>
        \o recordCacheHitSteps \o FindOrCreateSteps \o FindLabelSteps

ClassifyMissSteps ==
    closingCheckSteps
        \o << Call("embedding.GenerateEmbedding"),
              Call("vectorContent.Search"), Call("llm.Classify") >>
        \o recordClassificationSteps

\* the three maintenance jobs
updateLabelClusteringSteps ==
    << Call("embedding.GenerateEmbedding"), Call("vectorLabel.Search") >>
        \o FindOrCreateSteps \o FindOrCreateSteps \o UnionSteps

cacheTextEmbeddingSteps == << Call("vectorContent.Upsert") >>

cacheLabelEmbeddingUnderLock ==
    << Lock("dsu.lock"), Call("embedding.GenerateEmbedding"),
       Call("vectorLabel.Upsert"), Unlock("dsu.lock") >>

cacheLabelEmbeddingSteps ==
    << Call("embedding.GenerateEmbedding") >>
        \o FindOrCreateSteps \o FindLabelSteps
        \o << Call("vectorLabel.Upsert") >>

\* Close: the closing flag is set under closeLock
CloseSteps == << Lock("closeLock"), Unlock("closeLock") >>

Routines == { "ClassifyHit", "ClassifyMiss", "updateLabelClustering",
              "cacheTextEmbedding", "cacheLabelEmbedding", "GetMetrics",
              "Close" }

Routine(r) ==
    CASE r = "ClassifyHit" -> ClassifyHitSteps
      [] r = "ClassifyMiss" -> ClassifyMissSteps
      [] r = "updateLabelClustering" -> updateLabelClusteringSteps
      [] r = "cacheTextEmbedding" -> cacheTextEmbeddingSteps
      [] r = "cacheLabelEmbedding" -> cacheLabelEmbeddingSteps
      [] r = "GetMetrics" -> GetMetricsSteps
      [] r = "Close" -> CloseSteps

InitIO ==
    /\ Start
    /\ limit = [calls |-> 0, closes |-> 0, faults |-> 0, misses |-> 0,
                size |-> DsuMaxSize]

ioFrame == << closing, bgTasks, once, dsu, totalClassifications, cacheHits,
              contentStore, labelStore, saveCount, persisted, saveOutcome,
              drainSet, started, closes, faults, misses, cfg, limit, simLog,
              th, ret, served, clientVars, lockVars >>

\* goroutine p is at a step of kind k of its routine
AtStep(p, k) ==
    /\ io[p].routine # "none"
    /\ ~io[p].inCall
    /\ Routine(io[p].routine)[io[p].pos].k = k

Mutex(p) == Routine(io[p].routine)[io[p].pos].m

\* p is done with its step: on to the next one, or the routine returns
Advance(p) ==
    io' = [io EXCEPT ![p] =
             IF @.pos = Len(Routine(@.routine)) THEN IdleIo
             ELSE [@ EXCEPT !.pos = @ + 1, !.inCall = FALSE]]

IoBegin(p, r) ==
    /\ io[p].routine = "none"
    /\ io' = [io EXCEPT ![p] = [routine |-> r, pos |-> 1, inCall |-> FALSE]]
    /\ UNCHANGED << ioFrame, mutexes >>

\* sync.RWMutex: Lock waits for the writer and the readers to leave, RLock
\* for the writer
IoLock(p) ==
    /\ AtStep(p, "Lock")
    /\ mutexes[Mutex(p)] = Unlocked
    /\ mutexes' = [mutexes EXCEPT ![Mutex(p)].w = p]
    /\ Advance(p)
    /\ UNCHANGED ioFrame

IoUnlock(p) ==
    /\ AtStep(p, "Unlock")
    /\ mutexes' = [mutexes EXCEPT ![Mutex(p)].w = 0]
    /\ Advance(p)
    /\ UNCHANGED ioFrame

IoRLock(p) ==
    /\ AtStep(p, "RLock")
    /\ mutexes[Mutex(p)].w = 0
    /\ mutexes' = [mutexes EXCEPT ![Mutex(p)].r = @ \cup { p }]
    /\ Advance(p)
    /\ UNCHANGED ioFrame

IoRUnlock(p) ==
    /\ AtStep(p, "RUnlock")
    /\ mutexes' = [mutexes EXCEPT ![Mutex(p)].r = @ \ { p }]
    /\ Advance(p)
    /\ UNCHANGED ioFrame

\* the collaborator is called; the call returns when the collaborator
\* answers, with a value or with an error (on an error the routine returns)
IoCall(p) ==
    /\ AtStep(p, "call")
    /\ io' = [io EXCEPT ![p].inCall = TRUE]
    /\ UNCHANGED << ioFrame, mutexes >>

IoReturn(p) ==
    /\ io[p].inCall
    /\ Advance(p)
    /\ UNCHANGED << ioFrame, mutexes >>

IoFail(p) ==
    /\ io[p].inCall
    /\ io' = [io EXCEPT ![p] = IdleIo]
    /\ UNCHANGED << ioFrame, mutexes >>

NextIO ==
    \E p \in Threads :
        \/ \E r \in Routines : IoBegin(p, r)
        \/ IoLock(p)
        \/ IoUnlock(p)
        \/ IoRLock(p)
        \/ IoRUnlock(p)
        \/ IoCall(p)
        \/ IoReturn(p)
        \/ IoFail(p)

SpecIO == InitIO /\ [][NextIO]_vars

\* ------------------------------------------------- operators of the claims
\* root of x by following parent pointers, without compressing
RECURSIVE Chase(_, _)
Chase(root, x) == IF root[x] = x THEN x ELSE Chase(root, root[x])

SameSet(root, i, j) == Chase(root, i) = Chase(root, j)

HitPcs == { "hitRecord", "hitFind", "hitLabel" }

MissPcs == { "llm", "missRecord", "missAdd", "bgStart", "bgRun", "bgLog" }

ClosePcs == { "closeFlag", "closeBlocked", "closeWait", "closeSave" }

RunningJob == { "ready", "foundRoot", "foundLabel", "resolved" }

\* the label a cache hit on stored label l returns from store d
HitLabel(d, l) ==
    LET r == FindOrCreate(d, l) IN FindLabel(r.d, r.idx)

\* thread p is between the label search and the Union of its clustering job
Clustering(p) ==
    th[p].pc = "bgRun" /\ th[p].j1 \in { "foundRoot", "foundLabel" }

\* thread p takes the step
Steps(p) == th'[p] # th[p]

\* ------------------------------------------------------------------ claims

\* C1 (as stated): once Close has set the closing flag and drains, no Classify
\* call increments the job counter, starts maintenance jobs or mutates the
\* clustering store, except the calls whose Add(1) preceded the flag.
C1_NoJobAfterDrainBegan ==
    [][closing =>
         /\ bgTasks' <= bgTasks
         /\ \A p \in Threads :
              (th[p].pc = "bgStart" /\ th'[p].pc = "bgRun") => p \in drainSet
         /\ dsu' # dsu => \E p \in drainSet : Steps(p)]_vars

\* C2: Save, and the return of Close, come after the completion of every
\* miss-path call whose jobs were counted when Close set the closing flag.
C2_SaveAfterInFlightJobs ==
    (saveCount > 0 \/ ret.kind = "closed") =>
        /\ saveCount > 0
        /\ \A p \in drainSet : th[p].pc \notin CountedPcs

C2_Witness ==
    /\ saveCount = 1
    /\ drainSet # {}
    /\ ret.kind = "closed"

\* C3: however many Close calls are made, Save runs once, and a Close
\* returns only after that Save has finished.
C3_SaveExactlyOnce ==
    /\ saveCount <= 1
    /\ ret.kind = "closed" => (saveCount = 1 /\ once = "done")

C3_Witness ==
    /\ closes = 2
    /\ saveCount = 1
    /\ ret.kind = "closed"
    /\ \A p \in Threads : th[p].pc \notin ClosePcs

\* C4 (as stated): every Close returns the outcome of the Save made by the
\* first Close.
C4_CloseReturnsFirstOutcome ==
    ret.kind = "closed" => ret.err = saveOutcome

\* C5: a Classify call that starts when the closing flag is set returns
\* ShuttingDown at once, for every text, with no collaborator call and no
\* change of the clustering store, the metrics, the job counter or the
\* vector spaces.
C5_RejectedWhenClosing ==
    [][(closing /\ started' = started + 1) =>
          /\ ret'.kind = "err" /\ ret'.err = "ShuttingDown"
          /\ th' = th
          /\ UNCHANGED << dsu, bgTasks, totalClassifications, cacheHits,
                          contentStore, labelStore >>]_vars

C5_Witness ==
    /\ closing
    /\ ret.kind = "err" /\ ret.err = "ShuttingDown"
    /\ ret.text = EmptyStr

\* C6 (as stated): the store image Close handed to persistence contains
\* every label and every union of the store, in every state after the Save.
C6_NoLostUpdates ==
    saveCount > 0 =>
        LET img == persisted[Len(persisted)] IN
        /\ DOMAIN dsu.labels \subseteq DOMAIN img.labels
        /\ \A l1, l2 \in DOMAIN dsu.labels \cap DOMAIN img.labels :
             SameSet(dsu.root, dsu.labels[l1], dsu.labels[l2])
                => SameSet(img.root, img.labels[l1], img.labels[l2])

\* C7: when processBackgroundTasks has returned and the miss-path call
\* returns, none of the call's three jobs is still running: each one ended
\* (ok, failed or cancelled), or none was started because the context was
\* already cancelled.
C7_JobsDoneAtReturn ==
    \A p \in Threads :
        th[p].pc # "bgRun" =>
            /\ th[p].j1 \notin RunningJob
            /\ th[p].j2 \notin RunningJob
            /\ th[p].j3 \notin RunningJob
            /\ th[p].pc = "bgLog" =>
                  \/ { th[p].j1, th[p].j2, th[p].j3 } \subseteq JobDone
                  \/ /\ { th[p].j1, th[p].j2, th[p].j3 } = { "none" }
                     /\ th[p].bgErr = "ctx"

C7_Witness ==
    \E p \in Threads :
        /\ th[p].pc = "bgLog"
        /\ th[p].j1 = "ok" /\ th[p].j2 = "ok" /\ th[p].j3 = "ok"

\* C8: the hit path is taken exactly when the content search returned a
\* match whose score is at least the content threshold; on the hit path the
\* LLM is not called, nothing is upserted, the confidence is the match score
\* and the background latency is zero.
C8_HitPolicy ==
    /\ [](\A p \in Threads :
            /\ th[p].pc \in HitPcs =>
                  /\ th[p].matched /\ th[p].score >= DefaultMinSimilarity
                  /\ th[p].llmCalls = 0
                  /\ th[p].upsertsContent = 0 /\ th[p].upsertsLabel = 0
            /\ th[p].pc \in MissPcs =>
                  ~(th[p].matched /\ th[p].score >= DefaultMinSimilarity))
    /\ [][\A p \in Threads :
            /\ (th[p].pc \in HitPcs /\ Steps(p)) =>
                  UNCHANGED << contentStore, labelStore, bgTasks >>
            /\ (th[p].pc = "hitLabel" /\ Steps(p)) =>
                  /\ ret'.kind = "ok" /\ ret'.cacheHit
                  /\ ret'.confidence = th[p].score
                  /\ ret'.backgroundLatency = 0]_vars

C8_Witness ==
    /\ ret.kind = "ok" /\ ret.cacheHit
    /\ ret.confidence = DefaultMinSimilarity
    /\ ret.backgroundLatency = 0

C10_LabelNonEmpty ==
    ret.kind = "ok" => ret.label # EmptyStr

\* C11 (as stated): the miss-path label handed to the caller, entered in the
\* clustering store and written to the vector metadata is trimmed and
\* lowercased, whatever string the LLM collaborator returned.
C11_LabelLowercased ==
    /\ (ret.kind = "ok" /\ ~ret.cacheHit) =>
          ret.label = ToLower(TrimSpace(ret.label))
    /\ \A i \in 1..Len(contentStore) :
          contentStore[i].label = ToLower(TrimSpace(contentStore[i].label))
    /\ \A l \in DOMAIN labelStore : l = ToLower(TrimSpace(l))
    /\ \A l \in DOMAIN dsu.labels : l = ToLower(TrimSpace(l))

\* C12: when the label search made for label B returned a match at or above
\* the label threshold carrying the root stored with label A, then once B's
\* clustering job has made its Union, A and B are in the same set of the
\* store and a cache hit on either stored label returns the same root label.
C12_Convergence ==
    \A pr \in simLog :
        (\A p \in Threads :
            ~(Clustering(p) /\ TrimSpace(th[p].label) = pr[2])) =>
            /\ pr[1] \in DOMAIN dsu.labels
            /\ pr[2] \in DOMAIN dsu.labels
            /\ SameSet(dsu.root, dsu.labels[pr[1]], dsu.labels[pr[2]])
            /\ HitLabel(dsu, pr[1]) = HitLabel(dsu, pr[2])

C12_Witness ==
    /\ misses = 2
    /\ th[Caller].pc = "idle"
    /\ ret.kind = "ok" /\ ~ret.cacheHit
    /\ \E pr \in simLog :
         /\ pr[1] # pr[2]
         /\ ret.label = pr[2]
         /\ HitLabel(dsu, pr[1]) = pr[1]
         /\ HitLabel(dsu, pr[2]) = pr[1]

\* C13: a miss-path call in which no collaborator failed has, when
\* processBackgroundTasks returned, called the LLM once and made one upsert
\* to the content vector space and one to the label vector space, and both
\* spaces hold what it upserted.
C13_OneLLMOneUpsertEach ==
    \A p \in Threads :
        (th[p].pc = "bgLog" /\ th[p].bgErr = "nil") =>
            /\ th[p].llmCalls = 1
            /\ th[p].upsertsContent = 1
            /\ th[p].upsertsLabel = 1
            /\ \E i \in 1..Len(contentStore) :
                 contentStore[i] = [vector_text |-> th[p].text,
                                    label |-> th[p].label]
            /\ th[p].label \in DOMAIN labelStore

C13_Witness ==
    \E p \in Threads :
        /\ th[p].pc = "bgLog" /\ th[p].bgErr = "nil"
        /\ th[p].matched /\ th[p].score < DefaultMinSimilarity
        /\ th[p].llmCalls = 1
        /\ Len(contentStore) = 1 /\ Cardinality(DOMAIN labelStore) = 1

\* C14: a Classify call that passes the closing check with a text that is
\* empty after trimming returns InvalidInput in that step, before the
\* embedding, search or LLM collaborator is called, and leaves the clustering
\* store, the metrics, the job counter and the vector spaces as they were;
\* a call that goes on to the embedding carries a non-empty trimmed text.
C14_EmptyTextRejected ==
    [][(~closing /\ started' = started + 1) =>
          \/ /\ ret'.kind = "err" /\ ret'.err = "InvalidInput"
             /\ TrimSpace(ret'.text) = EmptyStr
             /\ th' = th
             /\ UNCHANGED << dsu, bgTasks, totalClassifications, cacheHits,
                             contentStore, labelStore >>
          \/ /\ ret' = ret
             /\ \E p \in Threads :
                  /\ th[p].pc = "idle" /\ th'[p].pc = "embed"
                  /\ th'[p].text # EmptyStr
                  /\ th'[p].text = TrimSpace(th'[p].text)
                  /\ th'[p].embedCalls = 0 /\ th'[p].searchCalls = 0
                  /\ th'[p].llmCalls = 0]_vars

C14_Witness ==
    /\ ~closing
    /\ ret.kind = "err" /\ ret.err = "InvalidInput"
    /\ ret.text = << " " >>
    /\ totalClassifications = 0

\* C15: the step that receives the LLM's answer either returns an error
\* (EmptyLabel when the answer is empty after trimming) and then starts no
\* maintenance job, upserts nothing, leaves the clustering store and the
\* metrics unchanged, or goes on with a label that is trimmed and not empty.
C15_EmptyLabelNoMaintenance ==
    [][\A p \in Threads :
         (th[p].pc = "llm" /\ Steps(p)) =>
            \/ /\ ret'.kind = "err"
               /\ ret'.err \in { "EmptyLabel", "LLMFailure" }
               /\ th'[p] = IdleThread
               /\ UNCHANGED << dsu, bgTasks, totalClassifications, cacheHits,
                               contentStore, labelStore >>
            \/ /\ ret' = ret
               /\ th'[p].pc = "missRecord"
               /\ th'[p].label # EmptyStr
               /\ th'[p].label = TrimSpace(th'[p].label)]_vars

C15_Witness ==
    /\ ret.kind = "err" /\ ret.err = "EmptyLabel"
    /\ misses = 1
    /\ totalClassifications = 0
    /\ dsu = NewDSU /\ contentStore = << >> /\ labelStore = EmptyFn
    /\ \A p \in Threads : th[p].pc = "idle"

\* C16: no step of a call up to and including the LLM call changes the
\* clustering store, the vector spaces, the metrics or the job counter; a
\* failing embedding returns EmbeddingFailure with search and LLM not
\* called, a failing search returns SearchFailure with the LLM not called,
\* a failing LLM returns LLMFailure with no maintenance job started; each
\* returns an error and no result.
C16_FailureAborts ==
    [][\A p \in Threads :
         (th[p].pc \in { "embed", "search", "llm" } /\ Steps(p)) =>
            /\ UNCHANGED << dsu, bgTasks, totalClassifications, cacheHits,
                            contentStore, labelStore >>
            /\ th[p].llmCalls = 0
            /\ th[p].j1 = "none" /\ th[p].j2 = "none" /\ th[p].j3 = "none"
            /\ th[p].upsertsContent = 0 /\ th[p].upsertsLabel = 0
            /\ th[p].pc = "embed" =>
                  /\ th[p].embedCalls = 0 /\ th[p].searchCalls = 0
                  /\ \/ th'[p].pc = "search" /\ ret' = ret
                     \/ /\ th'[p] = IdleThread
                        /\ ret' = [NoResult EXCEPT !.kind = "err",
                                                   !.err = "EmbeddingFailure"]
            /\ th[p].pc = "search" =>
                  /\ th[p].searchCalls = 0
                  /\ \/ th'[p].pc \in { "hitRecord", "llm" } /\ ret' = ret
                     \/ /\ th'[p] = IdleThread
                        /\ ret'.kind = "err" /\ ret'.label = EmptyStr
                        /\ ret'.err \in { "SearchFailure",
                                          "CorruptCacheEntry" }
            /\ th[p].pc = "llm" =>
                  \/ th'[p].pc = "missRecord" /\ ret' = ret
                  \/ /\ th'[p] = IdleThread
                     /\ ret'.kind = "err" /\ ret'.label = EmptyStr
                     /\ ret'.err \in { "LLMFailure", "EmptyLabel" }]_vars

C16_Witness ==
    /\ ret = [NoResult EXCEPT !.kind = "err", !.err = "LLMFailure"]
    /\ misses = 1
    /\ totalClassifications = 0 /\ cacheHits = 0 /\ bgTasks = 0
    /\ dsu = NewDSU /\ contentStore = << >> /\ labelStore = EmptyFn
    /\ \A p \in Threads : th[p].pc = "idle"

\* C17: a content match at or above the threshold never goes to the miss
\* path, whatever its metadata; the hit path is entered only with a label
\* field that is a string; the search step that returns CorruptCacheEntry
\* has not called the LLM, starts no maintenance and leaves the hit counter
\* and the total counter as they were.
C17_CorruptEntrySurfaced ==
    [][\A p \in Threads :
         (th[p].pc = "search" /\ Steps(p)) =>
            /\ th'[p].pc = "llm" =>
                  ~(th'[p].matched /\ th'[p].score >= DefaultMinSimilarity)
            /\ th'[p].pc = "hitRecord" => th'[p].labelOk
            /\ th'[p].pc \in { "llm", "hitRecord", "idle" }
            /\ th'[p].pc = "idle" =>
                  /\ ret'.kind = "err"
                  /\ ret'.err \in { "CorruptCacheEntry", "SearchFailure" }
                  /\ th[p].llmCalls = 0
                  /\ th'[p] = IdleThread
                  /\ UNCHANGED << totalClassifications, cacheHits, misses,
                                  bgTasks, dsu, contentStore, labelStore >>]_vars

C17_Witness ==
    /\ ret = [NoResult EXCEPT !.kind = "err", !.err = "CorruptCacheEntry"]
    /\ started = 1 /\ misses = 0
    /\ totalClassifications = 0 /\ cacheHits = 0
    /\ \A p \in Threads : th[p].pc = "idle"

\* C18: whichever of the three maintenance jobs failed, none, some or all,
\* the miss-path call returns success with cacheHit false and the label the
\* LLM gave, which is not empty.
C18_MaintenanceNeverEscalates ==
    [][\A p \in Threads :
         (th[p].pc = "bgLog" /\ Steps(p)) =>
            /\ th[p].label # EmptyStr
            /\ ret'.kind = "ok" /\ ret'.err = "nil"
            /\ ~ret'.cacheHit
            /\ ret'.label = th[p].label]_vars

C18_Witness ==
    /\ th[Caller].pc = "bgLog"
    /\ th[Caller].j1 = "failed"
    /\ th[Caller].j2 = "failed"
    /\ th[Caller].j3 = "failed"
    /\ th[Caller].bgErr \in { "clustering", "textCache", "labelCache" }

\* C19: with the context of the call already cancelled, processBackgroundTasks
\* starts no job and returns the cancellation error, and a job that has not
\* yet started its work ends cancelled, its error the cancellation error;
\* neither calls the embedding, the search or an upsert nor changes the
\* clustering store or a vector space; Classify then returns the label.
C19_CancelledFailsFast ==
    [][\A p \in Threads :
         (th[p].ctxDone /\ Steps(p)) =>
            /\ th[p].pc = "bgStart" =>
                  /\ th'[p] = [th[p] EXCEPT !.pc = "bgLog", !.bgErr = "ctx"]
                  /\ UNCHANGED << dsu, contentStore, labelStore >>
            /\ (th[p].pc = "bgRun" /\ th'[p].pc = "bgRun"
                  /\ \/ th[p].j1 = "ready" /\ th'[p].j1 # "ready"
                     \/ th[p].j2 = "ready" /\ th'[p].j2 # "ready"
                     \/ th[p].j3 = "ready" /\ th'[p].j3 # "ready") =>
                  /\ { th'[p].j1, th'[p].j2, th'[p].j3 }
                        \subseteq { "ready", "cancelled" } \cup
                                  { th[p].j1, th[p].j2, th[p].j3 }
                  /\ th'[p].errChan = Append(th[p].errChan, "ctx")
                  /\ th'[p].embedCalls = th[p].embedCalls
                  /\ th'[p].searchCalls = th[p].searchCalls
                  /\ th'[p].upsertsContent = th[p].upsertsContent
                  /\ th'[p].upsertsLabel = th[p].upsertsLabel
                  /\ UNCHANGED << dsu, contentStore, labelStore >>
            /\ th[p].pc = "bgLog" =>
                  /\ ret'.kind = "ok" /\ ret'.label = th[p].label
                  /\ ret'.label # EmptyStr]_vars

C19_Witness ==
    \E p \in Threads :
        /\ th[p].pc = "bgLog"
        /\ th[p].ctxDone /\ th[p].bgErr = "ctx"
        /\ th[p].j1 = "none" /\ th[p].j2 = "none" /\ th[p].j3 = "none"
        /\ th[p].upsertsContent = 0 /\ th[p].upsertsLabel = 0
        /\ th[p].label # EmptyStr

\* C20 (as stated): the index a label was given when it was first added
\* never changes, under any later adds and unions, and the number of
\* indices never decreases; FindOrCreate called twice in a row returns the
\* same index both times.
C20_IndexStable ==
    /\ [](\A l \in DsuLabels :
            LET r1 == FindOrCreate(dsu, l)
                r2 == FindOrCreate(r1.d, l)
            IN  r1.idx = r2.idx)
    /\ [][/\ SliceLen(dsu'.root) >= SliceLen(dsu.root)
          /\ \A l \in DOMAIN dsu.labels :
               /\ l \in DOMAIN dsu'.labels
               /\ dsu'.labels[l] = dsu.labels[l]]_vars

\* what Connected answers for the indices two labels are entered under
LabelsConnected(d, A, B) ==
    /\ A \in DOMAIN d.labels
    /\ B \in DOMAIN d.labels
    /\ Connected(d, d.labels[A], d.labels[B]).res

\* C21: two labels that are Connected stay Connected through every further
\* Add, FindOrCreate, Union, Connected and CountSets: sets are merged, never
\* split.
C21_ConnectedForever ==
    [][\A A, B \in DsuLabels :
          LabelsConnected(dsu, A, B) => LabelsConnected(dsu', A, B)]_vars

RECURSIVE FindPath(_, _)
FindPath(root, x) ==
    IF root[x] = x THEN {} ELSE { x } \cup FindPath(root, root[x])

\* C23: Union(x, y) on two different sets hangs the root of smaller rank
\* under the root of strictly greater rank and changes no rank; on equal
\* ranks the root of y's set goes under the root of x's set, whose rank
\* grows by one; every other parent entry is as before or, on the two find
\* paths, points at the root it had; no other rank changes.
C23_UnionByRank ==
    \A x, y \in DOMAIN dsu.root :
        LET rx == Chase(dsu.root, x)
            ry == Chase(dsu.root, y)
            after == Union(dsu, x, y)
            winner == IF dsu.rank[rx] >= dsu.rank[ry] THEN rx ELSE ry
            loser == IF winner = rx THEN ry ELSE rx
            onPaths == FindPath(dsu.root, x) \cup FindPath(dsu.root, y)
        IN  rx # ry =>
              /\ after.root[loser] = winner
              /\ after.root[winner] = winner
              /\ \A i \in DOMAIN dsu.rank :
                    after.rank[i] =
                        IF i = winner /\ dsu.rank[rx] = dsu.rank[ry]
                        THEN dsu.rank[i] + 1 ELSE dsu.rank[i]
              /\ \A i \in DOMAIN dsu.root \ { loser } :
                    \/ after.root[i] = dsu.root[i]
                    \/ i \in onPaths /\ after.root[i] = Chase(dsu.root, i)
              /\ DOMAIN after.root = DOMAIN dsu.root
              /\ after.labels = dsu.labels
              /\ after.labelIndex = dsu.labelIndex

\* a Union has merged two sets of equal rank, and the store now holds roots
\* of different ranks
C23_Witness ==
    /\ last.op = "union" /\ last.res = 1
    /\ \E x, y \in DOMAIN dsu.root :
          /\ dsu.root[x] = x /\ dsu.root[y] = y
          /\ dsu.rank[x] > dsu.rank[y]

\* the threads that are between the lock and unlock of a store call
InStore == { p \in Threads : op[p].pc # "idle" }

\* C24: a step that changes the parent slice is taken by the thread that
\* holds the exclusive lock, and no other thread is inside a store call.
C24_ParentWritesExclusive ==
    [][\A p \in Threads :
          (op'[p] # op[p] /\ dsu'.root # dsu.root) =>
              /\ lock.w = p
              /\ InStore \subseteq { p }]_vars

\* Load has just handed back the store decoded from the file that Save
\* wrote, untouched since
LoadedWhatWasSaved ==
    /\ last.op = "load" /\ last.store
    /\ file.exists /\ file.by = "save"
    /\ Usable(saved)

C26_FindLabelRoundTrip ==
    LoadedWhatWasSaved =>
        \A i \in DOMAIN saved.root : FindLabel(dsu, i) = FindLabel(saved, i)

\* C27: Load of a file that exists and is malformed, in its syntax or in its
\* structure, returns an error and no store.
C27_MalformedRejected ==
    (last.op = "load" /\ file.exists /\ Malformed(file)) =>
        (last.err # "nil" /\ ~last.store)

\* C28: Load with no file returns no error and a store equal to a new one:
\* Size and CountSets are 0, and FindOrCreate and Union act on it as on the
\* store NewDSU makes.
C28_MissingFileIsEmptyStore ==
    (last.op = "load" /\ ~file.exists) =>
        /\ last.err = "nil" /\ last.store
        /\ Size(dsu) = 0 /\ CountSets(dsu).n = 0
        /\ \A l \in DsuLabels :
              /\ FindOrCreate(dsu, l) = FindOrCreate(NewDSU, l)
              /\ FindLabel(FindOrCreate(dsu, l).d, 0) = l
        /\ \A k, l \in DsuLabels :
              LET d2 == FindOrCreate(FindOrCreate(dsu, k).d, l).d
                  n2 == FindOrCreate(FindOrCreate(NewDSU, k).d, l).d
              IN  \A x, y \in DOMAIN d2.root :
                      Union(d2, x, y) = Union(n2, x, y)

\* a store was built and saved, the file was removed, and Load was called
C28_Witness ==
    /\ last.op = "load" /\ ~file.exists
    /\ Size(saved) > 0
    /\ dsu = NewDSU

\* GetMetrics. CacheHitRate is float32(cacheHits) / float32(total) * 100,
\* kept here as the fraction num / den (the rounding of float32 is left out)
GetMetrics ==
    [UniqueLabels |-> Size(dsu),
     ConvergedLabels |-> CountSets(dsu).n,
     CacheHitRate |->
        IF totalClassifications > 0
        THEN [num |-> cacheHits * 100, den |-> totalClassifications]
        ELSE [num |-> 0, den |-> 1]]

\* the calls that have passed recordCacheHit or recordClassification and
\* have not returned yet
RecordedHits == { p \in Threads : th[p].pc \in { "hitFind", "hitLabel" } }

RecordedMisses ==
    { p \in Threads : th[p].pc \in { "missAdd", "bgStart", "bgRun", "bgLog" } }

HitRateIs(hits, total) ==
    LET r == GetMetrics.CacheHitRate IN
    IF total = 0 THEN r.num = 0
    ELSE r.num * total = 100 * hits * r.den

\* C29 as stated: at every moment the total is the number of calls that have
\* returned a result and the hit counter the number of those with
\* cacheHit = true.
C29_CountersEqualReturned ==
    /\ totalClassifications = served.results
    /\ cacheHits = served.hits
    /\ cacheHits <= totalClassifications
    /\ HitRateIs(cacheHits, totalClassifications)

\* C29: the total is the number of calls that have returned a result plus
\* the calls that have recorded themselves and are still running, likewise
\* the hit counter; so both are exact whenever no call is between its record
\* step and its return. hits <= total, and the rate is 100 * hits / total,
\* 0 when total is 0.
C29_MetricsExact ==
    /\ totalClassifications =
          served.results + Cardinality(RecordedHits \cup RecordedMisses)
    /\ cacheHits = served.hits + Cardinality(RecordedHits)
    /\ (RecordedHits \cup RecordedMisses = {} =>
          /\ totalClassifications = served.results
          /\ cacheHits = served.hits)
    /\ cacheHits <= totalClassifications
    /\ HitRateIs(cacheHits, totalClassifications)

\* a hit and a miss have both returned and no call is running
C29_Witness ==
    /\ \A p \in Threads : th[p].pc = "idle"
    /\ served.results = 2 /\ served.hits = 1
    /\ totalClassifications = 2 /\ cacheHits = 1

\* C30: in a store created empty, whatever calls were made on it, parent and
\* rank are as long as the number of labels, every parent entry is an index
\* of the slice, and the parent pointers of every index end in a root.
C30_StructuralInvariant ==
    tally.fresh =>
        /\ SliceLen(dsu.root) = Size(dsu)
        /\ SliceLen(dsu.rank) = Size(dsu)
        /\ \A i \in DOMAIN dsu.root : dsu.root[i] \in DOMAIN dsu.root
        /\ \A i \in DOMAIN dsu.root :
              Reaches(dsu.root, i, SliceLen(dsu.root))

\* C31: in a store created empty and filled by FindOrCreate calls of several
\* threads, also calls made for one label while the store did not hold it
\* yet, every label has one index and every index one label, the two lookup
\* tables are inverse to each other, and the index a call returned lies in
\* the set of its label.
C31_OneIndexPerLabel ==
    tally.fresh =>
        /\ SliceLen(dsu.root) = Size(dsu)
        /\ tally.adds = Size(dsu)
        /\ \A k, l \in DOMAIN dsu.labels :
              dsu.labels[k] = dsu.labels[l] => k = l
        /\ DOMAIN dsu.labelIndex = DOMAIN dsu.root
        /\ \A l \in DOMAIN dsu.labels : dsu.labelIndex[dsu.labels[l]] = l
        /\ \A i \in DOMAIN dsu.labelIndex : dsu.labels[dsu.labelIndex[i]] = i
        /\ (last.op = "findOrCreate" =>
              /\ last.label \in DOMAIN dsu.labels
              /\ SameSet(dsu.root, last.res, dsu.labels[last.label]))

\* two threads called FindOrCreate for one label the store did not hold; one
\* of them has created it and returned, the other now holds the lock
C31_Witness ==
    /\ tally.fresh
    /\ \E p \in Threads :
          /\ op[p].pc = "foc" /\ op[p].unseen
          /\ op[p].label \in DOMAIN dsu.labels
          /\ last.op = "findOrCreate" /\ last.label = op[p].label

\* the number of parent steps from x to its root
RECURSIVE Depth(_, _)
Depth(root, x) == IF root[x] = x THEN 0 ELSE 1 + Depth(root, root[x])

Members(root, r) == { i \in DOMAIN root : Chase(root, i) = r }

\* C32: for every root r, no index of its set is more than rank[r] parent
\* steps away from it, and its set has at least 2^rank[r] members.
C32_HeightBound ==
    \A r \in DOMAIN dsu.root :
        dsu.root[r] = r =>
            /\ \A i \in Members(dsu.root, r) :
                  Depth(dsu.root, i) <= dsu.rank[r]
            /\ Cardinality(Members(dsu.root, r)) >= 2 ^ dsu.rank[r]

\* a root of rank 2 with an index two parent steps below it
C32_Witness ==
    \E r \in DOMAIN dsu.root :
        /\ dsu.root[r] = r /\ dsu.rank[r] = 2
        /\ \E i \in Members(dsu.root, r) : Depth(dsu.root, i) = 2

\* a first match whose score reaches the threshold t and that carries a
\* string root
Qualifies(m, t) == m.found /\ m.score >= t /\ m.has

\* C33: updateLabelClustering takes a root label R other than the new label
\* only from a first match of the label search whose score reaches the label
\* threshold and whose metadata holds the string root R; otherwise the root
\* label is the label itself, and then its Union leaves the label in the
\* store and merges no two sets. With another root label the Union merges
\* at most the sets of the two.
C33_ClusteringRule ==
    [][\A p \in Threads :
          LET l == TrimSpace(th[p].label) IN
          /\ (th[p].j1 = "ready" /\ th'[p].j1 = "foundRoot") =>
                LET R == th'[p].rootLabel1
                    m == th'[p].lm
                IN  /\ R # l => (Qualifies(m, cfg.minSimilarityLabel)
                                   /\ m.str = R)
                    /\ ~Qualifies(m, cfg.minSimilarityLabel) => R = l
                    /\ R \in DOMAIN dsu'.labels
          /\ (th[p].j1 = "foundLabel" /\ th'[p].j1 = "ok") =>
                LET R == th[p].rootLabel1
                    joined == { Chase(dsu.root, th[p].x),
                                Chase(dsu.root, th[p].y) }
                IN  /\ l \in DOMAIN dsu'.labels
                    /\ DOMAIN dsu'.root = DOMAIN dsu.root
                    /\ \A i, j \in DOMAIN dsu.root :
                          \/ SameSet(dsu'.root, i, j) = SameSet(dsu.root, i, j)
                          \/ /\ R # l
                             /\ { Chase(dsu.root, i), Chase(dsu.root, j) }
                                    = joined]_vars

\* the thresholds differ, and a label match whose score lies between them
\* has made another label the root label
C33_Witness ==
    /\ cfg.minSimilarityLabel < cfg.minSimilarityContent
    /\ \E p \in Threads :
          /\ th[p].pc = "bgRun" /\ th[p].j1 = "foundRoot"
          /\ th[p].lm.found
          /\ th[p].lm.score >= cfg.minSimilarityLabel
          /\ th[p].lm.score < cfg.minSimilarityContent
          /\ th[p].rootLabel1 # TrimSpace(th[p].label)
          /\ th[p].rootLabel1 \in DOMAIN dsu.labels

\* the label of the root of label l's set in store d (l is in the store)
RootLabelOf(d, l) == FindLabel(d, Chase(d.root, d.labels[l]))

\* thread p is back from processBackgroundTasks with all three jobs successful
AllJobsSucceeded(p) ==
    /\ th[p].pc = "bgLog"
    /\ th[p].bgErr = "nil"
    /\ th[p].j1 = "ok" /\ th[p].j2 = "ok" /\ th[p].j3 = "ok"

\* C34 (as stated): when a miss-path Classify call is about to return with
\* all three maintenance jobs successful, the root stored in the label vector
\* space for its label is the label of the root of that label's set in the
\* clustering store, however the clustering job and the label-cache job
\* interleaved.
C34_StoredRootIsClusterRoot ==
    \A p \in Threads :
        AllJobsSucceeded(p) =>
            /\ th[p].label \in DOMAIN labelStore
            /\ th[p].label \in DOMAIN dsu.labels
            /\ labelStore[th[p].label] = RootLabelOf(dsu, th[p].label)

\* thread p's label-cache job, and its content-cache job, writes its entry
LabelWrite(p) == th[p].j3 = "resolved" /\ th'[p].j3 = "ok"

ContentWrite(p) == th[p].j2 = "ready" /\ th'[p].j2 = "ok"

\* C35: the label cache write is keyed by the label, the content cache write
\* by a fresh id: a successful label write leaves exactly the old ids plus the
\* label (a label already present is overwritten, the number of entries is
\* unchanged), a successful content write adds exactly one entry and keeps
\* the others, and no other step changes either vector space.
C35_KeyedWrites ==
    [][ /\ \A p \in Threads :
             /\ LabelWrite(p) =>
                  /\ DOMAIN labelStore' = DOMAIN labelStore \cup { th[p].label }
                  /\ th[p].label \in DOMAIN labelStore =>
                        Cardinality(DOMAIN labelStore')
                            = Cardinality(DOMAIN labelStore)
                  /\ \A k \in DOMAIN labelStore \ { th[p].label } :
                        labelStore'[k] = labelStore[k]
                  /\ UNCHANGED contentStore
             /\ ContentWrite(p) =>
                  /\ Len(contentStore') = Len(contentStore) + 1
                  /\ SubSeq(contentStore', 1, Len(contentStore)) = contentStore
                  /\ contentStore'[Len(contentStore')].label = th[p].label
                  /\ UNCHANGED labelStore
        /\ (\A p \in Threads : ~LabelWrite(p) /\ ~ContentWrite(p)) =>
               UNCHANGED << contentStore, labelStore >>
      ]_vars

\* two misses with the same label and all writes successful: two content
\* entries, one label entry
C35_Witness ==
    /\ misses = 2
    /\ Len(contentStore) = 2
    /\ contentStore[1].label = contentStore[2].label
    /\ DOMAIN labelStore = { contentStore[1].label }
    /\ \E p \in Threads : th[p].pc = "bgLog" /\ th[p].j3 = "ok"

\* C36: on a miss the result carries the oracle's (trimmed) label, never its
\* cluster root: the label fixed when the LLM answered is kept through the
\* maintenance jobs and returned with cacheHit = false and confidence 0,
\* whatever the clustering job did to the label's set.
C36_MissReturnsOracleLabel ==
    [][ \A p \in Threads :
          /\ (th[p].pc = "llm" /\ th'[p].pc = "missRecord") =>
                \E out \in LLMOutputs : th'[p].label = TrimSpace(out)
          /\ (th[p].pc \in MissPcs \ { "llm" } /\ th'[p].pc \in MissPcs) =>
                th'[p].label = th[p].label
          /\ (th[p].pc = "bgLog" /\ th'[p].pc = "idle") =>
                /\ ret'.kind = "ok"
                /\ ret'.label = th[p].label
                /\ ret'.cacheHit = FALSE
                /\ ret'.confidence = 0
      ]_vars

\* a miss has returned its label while the clustering job of the call made
\* another label the root of the label's set
C36_Witness ==
    /\ ret.kind = "ok" /\ ~ret.cacheHit
    /\ started = 1 /\ misses = 1
    /\ th[Caller].pc = "idle"
    /\ ret.label \in DOMAIN dsu.labels
    /\ RootLabelOf(dsu, ret.label) # ret.label
    /\ RootLabelOf(dsu, ret.label) # EmptyStr

\* goroutine p holds mutex m, as writer or as reader
Holds(p, m) == mutexes[m].w = p \/ p \in mutexes[m].r

\* C37: no lock is held across external I/O: a goroutine inside an embedding,
\* vector search, vector upsert or LLM call holds neither dsu.lock nor
\* metricsLock nor closeLock; hence when every running goroutine is blocked
\* inside a collaborator call all three locks are free, and a store operation
\* of another goroutine is not blocked.
C37_NoLockAcrossIO ==
    /\ \A p \in Threads :
          io[p].inCall => \A m \in Mutexes : ~Holds(p, m)
    /\ (\A p \in Threads : io[p].routine = "none" \/ io[p].inCall) =>
          \A m \in Mutexes : mutexes[m] = Unlocked

\* one goroutine is inside the label upsert of cacheLabelEmbedding, after its
\* store calls, while another holds the store's lock exclusively
C37_Witness ==
    \E p, q \in Threads :
        /\ p # q
        /\ io[p].routine = "cacheLabelEmbedding"
        /\ io[p].inCall
        /\ Routine(io[p].routine)[io[p].pos] = Call("vectorLabel.Upsert")
        /\ mutexes["dsu.lock"].w = q

\* the error job number n of a call ended with, given how the job ended: its
\* own wrapped error, or the context's error when it was cancelled or never
\* started because the context was done
JobError(n, st) ==
    IF st = "failed"
    THEN (IF n = 1 THEN "clustering"
          ELSE IF n = 2 THEN "textCache" ELSE "labelCache")
    ELSE "ctx"

FailedJobErrors(t) ==
    { JobError(n, (<< t.j1, t.j2, t.j3 >>)[n]) :
        n \in { k \in 1..3 : (<< t.j1, t.j2, t.j3 >>)[k] # "ok" } }

\* what holds when processBackgroundTasks of thread p has returned
BackFromJobs(p) ==
    th[p].pc = "bgLog" =>
        /\ th[p].bgErr = "nil" <=>
              (th[p].j1 = "ok" /\ th[p].j2 = "ok" /\ th[p].j3 = "ok")
        /\ th[p].bgErr # "nil" => th[p].bgErr \in FailedJobErrors(th[p])
        /\ th[p].j1 = "ok" => th[p].label \in DOMAIN dsu.labels
        /\ th[p].j2 = "ok" =>
              \E i \in 1..Len(contentStore) :
                  contentStore[i] = [vector_text |-> th[p].text,
                                     label |-> th[p].label]
        /\ th[p].j3 = "ok" => th[p].label \in DOMAIN labelStore

\* C38: maintenance jobs are not rolled back and errors are aggregated:
\* processBackgroundTasks returns nil exactly when all three jobs succeeded
\* and otherwise the error of one of the jobs that did not; the entry or the
\* store membership written by every job that succeeded is there at the
\* return, and no step (a failing job, the join, the return) removes a
\* vector-space entry or separates two indices of one set.
C38_AggregatedNoRollback ==
    [][ /\ \A p \in Threads : BackFromJobs(p)'
        /\ Len(contentStore') >= Len(contentStore)
        /\ SubSeq(contentStore', 1, Len(contentStore)) = contentStore
        /\ DOMAIN labelStore \subseteq DOMAIN labelStore'
        /\ DOMAIN dsu.labels \subseteq DOMAIN dsu'.labels
        /\ \A i, j \in DOMAIN dsu.root :
              SameSet(dsu.root, i, j) => SameSet(dsu'.root, i, j)
      ]_vars

\* the clustering job failed, the two cache writes succeeded and their
\* entries are in place when processBackgroundTasks has returned that error
C38_Witness ==
    \E p \in Threads :
        /\ th[p].pc = "bgLog"
        /\ th[p].j1 = "failed" /\ th[p].j2 = "ok" /\ th[p].j3 = "ok"
        /\ th[p].bgErr = "clustering"
        /\ th[p].label \in DOMAIN labelStore
        /\ Len(contentStore) >= 1

\* the same indices are in one set before and after the step
SamePartition ==
    \A i, j \in DOMAIN dsu.root :
        SameSet(dsu.root, i, j) <=> SameSet(dsu'.root, i, j)

\* C39: a cache hit leaves the set structure of the clustering store as it
\* was, except that a stored label the store does not know is added as a new
\* singleton set (Size and CountSets grow by one) whose index the hit gets
\* back and whose label it returns; a hit never merges sets, and no step of
\* the hit path changes the counter of live maintenance jobs.
C39_HitFrame ==
    [][\A p \in Threads :
         (th[p].pc \in HitPcs /\ Steps(p)) =>
            /\ bgTasks' = bgTasks
            /\ th'[p].pc \notin CountedPcs
            /\ th[p].pc # "hitFind" => dsu' = dsu
            /\ \A i \in DOMAIN dsu.labelIndex :
                  /\ i \in DOMAIN dsu'.labelIndex
                  /\ dsu'.labelIndex[i] = dsu.labelIndex[i]
            /\ (th[p].pc = "hitFind" /\ th[p].label \in DOMAIN dsu.labels) =>
                  /\ SamePartition
                  /\ DOMAIN dsu'.root = DOMAIN dsu.root
                  /\ dsu'.labels = dsu.labels
                  /\ Size(dsu') = Size(dsu)
                  /\ CountSets(dsu').n = CountSets(dsu).n
            /\ (th[p].pc = "hitFind" /\ th[p].label \notin DOMAIN dsu.labels) =>
                  LET n == SliceLen(dsu.root) IN
                  /\ SamePartition
                  /\ DOMAIN dsu'.root = DOMAIN dsu.root \cup { n }
                  /\ \A i \in DOMAIN dsu'.root :
                        SameSet(dsu'.root, i, n) <=> i = n
                  /\ dsu'.labels = MapPut(dsu.labels, th[p].label, n)
                  /\ Size(dsu') = Size(dsu) + 1
                  /\ CountSets(dsu').n = CountSets(dsu).n + 1
                  /\ th'[p].rootIdx = n
                  /\ FindLabel(dsu', n) = th[p].label
            /\ th[p].pc = "hitLabel" =>
                  /\ ret'.label = FindLabel(dsu, th[p].rootIdx)
                  /\ ret'.cacheHit]_vars

\* a hit on a new classifier has just entered its stored label in the store:
\* one label, one set, and the index handed back is the label's own
C39_Witness ==
    \E p \in Threads :
        /\ th[p].pc = "hitLabel"
        /\ started = 1
        /\ Size(dsu) = 1 /\ CountSets(dsu).n = 1
        /\ th[p].rootIdx = dsu.labels[th[p].label]
        /\ bgTasks = 0

\* how many jobs of call t have sent their error
Sent(t) ==
    Cardinality({ n \in 1..3 :
        (<< t.j1, t.j2, t.j3 >>)[n] \in { "failed", "cancelled" } })

\* C40: processBackgroundTasks always terminates when every collaborator call
\* returns: a job sends at most one error, so errChan (capacity three) holds
\* one error per job that ended with an error and never more than three, no
\* send has to wait, the channel is closed and drained only once all three
\* jobs are done, and a call that entered processBackgroundTasks gets back
\* from it.
C40_Terminates ==
    /\ [](\A p \in Threads :
            /\ Len(th[p].errChan) <= ErrChanCapacity
            /\ th[p].pc = "bgRun" => Len(th[p].errChan) = Sent(th[p])
            /\ th[p].pc # "bgRun" => th[p].errChan = << >>
            /\ (th[p].pc = "bgRun" /\ ~Joined(th[p])) => CanSend(th[p]))
    /\ [][\A p \in Threads :
            (th[p].pc = "bgRun" /\ th'[p].pc # "bgRun") =>
                /\ Joined(th[p])
                /\ th'[p].pc = "bgLog"
                /\ th'[p].errChan = << >>]_vars
    /\ (th[Caller].pc \in { "bgStart", "bgRun" }) ~> (th[Caller].pc = "bgLog")

\* all three jobs have sent an error: the channel is full and the call is
\* about to get past wg.Wait()
C40_Witness ==
    /\ th[Caller].pc = "bgRun"
    /\ Len(th[Caller].errChan) = ErrChanCapacity
    /\ Joined(th[Caller])
====
